---- MODULE Spec2Model ----
(***************************************************************************)
(* Model of the pantry-agent Bedrock coordinator: the agent loop           *)
(* (Coordinator.Run), the plan validator (MealPlan.IsValid) and the        *)
(* feasibility checker (Coordinator.checkFeasible), and of the Ollama      *)
(* coordinator's loop.  Three specifications share the variables:          *)
(*   Spec        the Bedrock Coordinator.Run                               *)
(*   FeasSpec    direct calls of checkFeasible over plans, pantries and    *)
(*               catalogs                                                  *)
(*   OllamaSpec  the Ollama Coordinator.Run                                *)
(*                                                                         *)
(* Texts are sequences of tokens.  A token is either a single character    *)
(* ([ch |-> c]) or the member list of a JSON object, written as the value  *)
(* it decodes to ([members |-> plan]).  Quantities are integers; the       *)
(* division by a recipe's base servings is kept exact by carrying the      *)
(* aggregate demand over the common denominator Den.                       *)
(***************************************************************************)
EXTENDS Integers, Sequences, FiniteSets, TLC

\* ---------------------------------------------------------------- bounds
MaxIterations == 3

\* ------------------------------------------------------- generic helpers
Range(s) == {s[i] : i \in 1..Len(s)}

\* ------------------------------------------------------------ text model
WS == [ch |-> " "]
LB == [ch |-> "{"]
RB == [ch |-> "}"]
JUNK == [ch |-> "x"]

Members(p) == [members |-> p]

RECURSIVE TrimLeft(_)
TrimLeft(t) == IF t # <<>> /\ Head(t) = WS THEN TrimLeft(Tail(t)) ELSE t

RECURSIVE TrimRight(_)
TrimRight(t) ==
    IF t # <<>> /\ t[Len(t)] = WS THEN TrimRight(SubSeq(t, 1, Len(t) - 1)) ELSE t

\* strings.TrimSpace
TrimSpace(t) == TrimRight(TrimLeft(t))

\* strings.HasPrefix(t, "{")
HasPrefixBrace(t) == t # <<>> /\ Head(t) = LB

\* strings.HasSuffix(t, "}")
HasSuffixBrace(t) == t # <<>> /\ t[Len(t)] = RB

\* ------------------------------------------------------------- MealPlan
ZeroPlan == [Summary |-> "", DaysPlanned |-> <<>>]

Meal(id, name, servings) == [ID |-> id, Name |-> name, Servings |-> servings]

DayPlan(day, meals) == [Day |-> day, Meals |-> meals]

MealPlan(summary, days) == [Summary |-> summary, DaysPlanned |-> days]

\* json.Unmarshal([]byte(text), &mealPlan): whitespace around the object is
\* insignificant, "{}" leaves the zero value, anything else is a syntax error.
Unmarshal(text) ==
    LET t == TrimSpace(text) IN
    IF t = <<LB, RB>> THEN [err |-> "nil", plan |-> ZeroPlan]
    ELSE IF Len(t) = 3 /\ t[1] = LB /\ t[3] = RB /\ "members" \in DOMAIN t[2]
         THEN [err |-> "nil", plan |-> t[2].members]
         ELSE [err |-> "syntax error", plan |-> ZeroPlan]

\* an IsValid that does not look into the days
IsValid_DaysOnly(mp) ==
    /\ Len(mp.DaysPlanned) # 0
    /\ mp.Summary # ""

IsValid(mp) ==
    /\ Len(mp.DaysPlanned) # 0
    /\ \A d \in 1..Len(mp.DaysPlanned) :
          /\ Len(mp.DaysPlanned[d].Meals) # 0
          /\ \A m \in 1..Len(mp.DaysPlanned[d].Meals) :
                LET meal == mp.DaysPlanned[d].Meals[m] IN
                ~(meal.ID = "" \/ meal.Name = "" \/ meal.Servings <= 0)
    /\ mp.Summary # ""

\* ------------------------------------------------- strings of the snapshot
\* strings.TrimSpace on the names, ids and units of the snapshot
TrimStr(s) ==
    CASE s = "Egg " -> "Egg"
      [] s = " count" -> "count"
      [] s = " r1 " -> "r1"
      [] s = " " -> ""
      [] OTHER -> s

\* strings.ToLower
ToLower(s) ==
    CASE s = "Egg" -> "egg"
      [] OTHER -> s

ltrim(s) == ToLower(TrimStr(s))

\* Byte order of the strings that occur in problem messages.
Alphabet == <<"", "Egg", "count", "cup", "dozen", "egg", "milk", "r1", "r2", "r9", "salt">>

StrRank(s) == IF \E i \in 1..Len(Alphabet) : Alphabet[i] = s
              THEN CHOOSE i \in 1..Len(Alphabet) : Alphabet[i] = s
              ELSE Len(Alphabet) + 1

\* ------------------------------------------------------ problem messages
\* One record per fmt.Sprintf format of checkFeasible; key is the position of
\* the formatted string in byte order:
\*   "days_planned ..." < "insufficient NM" < "meal ID" < "missing ingredient: NM"
\*   < "recipe ID has invalid" < "recipe ID ingredient NM has" < "... missing unit"
\*   < "unit conflict" < "unit mismatch" < "unknown recipe id"
Problem(kind, a, b, detail, key) == [kind |-> kind, a |-> a, b |-> b, detail |-> detail, key |-> key]

ProbDaysEmpty == Problem("days_planned must be non-empty", "", "", <<>>, <<0, 0, 0, 0, 0>>)

ProbInsufficient(name, need, den, unit, have, haveUnit) ==
    Problem("insufficient", name, "", <<need, den, unit, have, haveUnit>>, <<1, StrRank(name), 0, 0, 0>>)

ProbNonPosServings(id) ==
    Problem("meal has non-positive servings", id, "", <<>>, <<2, StrRank(id), 0, 0, 0>>)

ProbMissing(name, need, den, unit) ==
    Problem("missing ingredient", name, "", <<need, den, unit>>, <<3, StrRank(name), 0, 0, 0>>)

ProbBaseServings(id) ==
    Problem("recipe has invalid base servings", id, "", <<>>, <<4, StrRank(id), 0, 0, 0>>)

ProbNonPosQty(id, nm) ==
    Problem("recipe ingredient has non-positive qty", id, nm, <<>>, <<4, StrRank(id), 1, StrRank(nm), 0>>)

ProbMissingUnit(id, nm) ==
    Problem("recipe ingredient missing unit", id, nm, <<>>, <<4, StrRank(id), 1, StrRank(nm), 1>>)

ProbUnitConflict(name, u1, u2) ==
    Problem("unit conflict", name, "", <<u1, u2>>, <<5, StrRank(name), 0, 0, 0>>)

ProbUnitMismatch(name, need, have) ==
    Problem("unit mismatch", name, "", <<need, have>>, <<6, StrRank(name), 0, 0, 0>>)

ProbUnknownRecipe(id) ==
    Problem("unknown recipe id", id, "", <<>>, <<7, StrRank(id), 0, 0, 0>>)

RECURSIVE KeyLess(_, _)
KeyLess(k1, k2) ==
    IF k1 = <<>> THEN FALSE
    ELSE IF Head(k1) # Head(k2) THEN Head(k1) < Head(k2)
    ELSE KeyLess(Tail(k1), Tail(k2))

RECURSIVE Insert(_, _)
Insert(p, sorted) ==
    IF sorted = <<>> THEN <<p>>
    ELSE IF KeyLess(p.key, Head(sorted).key) THEN <<p>> \o sorted
    ELSE <<Head(sorted)>> \o Insert(p, Tail(sorted))

\* the problems returned in the order they were appended
SortProblems_Unsorted(ps) == ps

\* sort.Strings(problems)
RECURSIVE SortProblems(_)
SortProblems(ps) == IF ps = <<>> THEN <<>> ELSE Insert(Head(ps), SortProblems(Tail(ps)))

\* ------------------------------------------------------- checkFeasible
EmptyMap == [x \in {} |-> 0]

\* index pantry -> name(lower) -> (qty, unit); a later entry replaces an earlier one
RECURSIVE IndexPantry(_, _)
IndexPantry(ings, idx) ==
    IF ings = <<>> THEN idx
    ELSE LET it == Head(ings)
             name == ltrim(it.name)
         IN IF name = "" THEN IndexPantry(Tail(ings), idx)
            ELSE IndexPantry(Tail(ings),
                             (name :> [qty |-> it.qty, unit |-> TrimStr(it.unit)]) @@ idx)

\* the needs of one catalog recipe and the problems flagged while reading them
RECURSIVE IndexNeeds(_, _, _)
IndexNeeds(id, arr, acc) ==
    IF arr = <<>> THEN acc
    ELSE LET im == Head(arr)
             nm == ltrim(im.name)
             un == TrimStr(im.unit)
             qv == im.qty
             op == im.optional
             flagged == IF nm # "" /\ ~op
                        THEN (IF un = "" THEN <<ProbMissingUnit(id, nm)>> ELSE <<>>)
                             \o (IF ~(qv > 0) THEN <<ProbNonPosQty(id, nm)>> ELSE <<>>)
                        ELSE <<>>
         IN IndexNeeds(id, Tail(arr),
                [problems |-> acc.problems \o flagged,
                 needs |-> Append(acc.needs, [name |-> nm, qty |-> qv, unit |-> un, optional |-> op])])

\* an index that defaults the base servings to 1 without recording a problem
RECURSIVE IndexRecipes_SilentDefault(_, _)
IndexRecipes_SilentDefault(rs, acc) ==
    IF rs = <<>> THEN acc
    ELSE LET r == Head(rs)
             id == TrimStr(r.id)
         IN IF id = "" THEN IndexRecipes_SilentDefault(Tail(rs), acc)
            ELSE LET base == IF r.servings <= 0 THEN 1 ELSE r.servings
                     nd == IndexNeeds(id, r.ingredients, [problems |-> acc.problems, needs |-> <<>>])
                 IN IndexRecipes_SilentDefault(Tail(rs),
                        [problems |-> nd.problems,
                         recByID |-> (id :> [baseServ |-> base, needs |-> nd.needs]) @@ acc.recByID])

\* index recipes by id -> (baseServ, needs)
RECURSIVE IndexRecipes(_, _)
IndexRecipes(rs, acc) ==
    IF rs = <<>> THEN acc
    ELSE LET r == Head(rs)
             id == TrimStr(r.id)
         IN IF id = "" THEN IndexRecipes(Tail(rs), acc)
            ELSE LET badBase == r.servings <= 0
                     base == IF badBase THEN 1 ELSE r.servings
                     probs == IF badBase THEN Append(acc.problems, ProbBaseServings(id))
                              ELSE acc.problems
                     nd == IndexNeeds(id, r.ingredients, [problems |-> probs, needs |-> <<>>])
                 IN IndexRecipes(Tail(rs),
                        [problems |-> nd.problems,
                         recByID |-> (id :> [baseServ |-> base, needs |-> nd.needs]) @@ acc.recByID])

\* common denominator of the scales servings / baseServ
RECURSIVE Denominator(_)
Denominator(rs) ==
    IF rs = <<>> THEN 1
    ELSE (IF Head(rs).servings <= 0 THEN 1 ELSE Head(rs).servings) * Denominator(Tail(rs))

\* one need of one meal, each meal judged on its own: the largest single
\* contribution is kept instead of the sum
AddNeed_KeepsLargest(acc, n, mult) ==
    IF n.name = "" \/ n.unit = "" \/ ~(n.qty > 0) THEN acc
    ELSE IF n.optional THEN acc
    ELSE LET cur == IF n.name \in DOMAIN acc.required THEN acc.required[n.name]
                    ELSE [qty |-> 0, unit |-> ""]
         IN IF cur.unit # "" /\ cur.unit # n.unit
            THEN IF n.name \in acc.conflicted THEN acc
                 ELSE [acc EXCEPT !.problems = Append(@, ProbUnitConflict(n.name, cur.unit, n.unit)),
                                  !.conflicted = @ \cup {n.name}]
            ELSE [acc EXCEPT !.required =
                      (n.name :> [qty |-> IF cur.qty > n.qty * mult THEN cur.qty ELSE n.qty * mult,
                                  unit |-> n.unit]) @@ @]

\* one need of one meal, a unit conflict reported at every conflicting need
AddNeed_ConflictEveryTime(acc, n, mult) ==
    IF n.name = "" \/ n.unit = "" \/ ~(n.qty > 0) THEN acc
    ELSE IF n.optional THEN acc
    ELSE LET cur == IF n.name \in DOMAIN acc.required THEN acc.required[n.name]
                    ELSE [qty |-> 0, unit |-> ""]
         IN IF cur.unit # "" /\ cur.unit # n.unit
            THEN [acc EXCEPT !.problems = Append(@, ProbUnitConflict(n.name, cur.unit, n.unit)),
                             !.conflicted = @ \cup {n.name}]
            ELSE [acc EXCEPT !.required =
                      (n.name :> [qty |-> cur.qty + n.qty * mult, unit |-> n.unit]) @@ @]

\* one need of one meal, optional needs counted like the others
AddNeed_CountsOptional(acc, n, mult) ==
    IF n.name = "" \/ n.unit = "" \/ ~(n.qty > 0) THEN acc
    ELSE LET cur == IF n.name \in DOMAIN acc.required THEN acc.required[n.name]
                    ELSE [qty |-> 0, unit |-> ""]
         IN IF cur.unit # "" /\ cur.unit # n.unit
            THEN IF n.name \in acc.conflicted THEN acc
                 ELSE [acc EXCEPT !.problems = Append(@, ProbUnitConflict(n.name, cur.unit, n.unit)),
                                  !.conflicted = @ \cup {n.name}]
            ELSE [acc EXCEPT !.required =
                      (n.name :> [qty |-> cur.qty + n.qty * mult, unit |-> n.unit]) @@ @]

\* one need of one meal: required[n.name] += n.qty * scale, in units of 1/den
AddNeed(acc, n, mult) ==
    IF n.name = "" \/ n.unit = "" \/ ~(n.qty > 0) THEN acc
    ELSE IF n.optional THEN acc
    ELSE LET cur == IF n.name \in DOMAIN acc.required THEN acc.required[n.name]
                    ELSE [qty |-> 0, unit |-> ""]
         IN IF cur.unit # "" /\ cur.unit # n.unit
            THEN IF n.name \in acc.conflicted THEN acc
                 ELSE [acc EXCEPT !.problems = Append(@, ProbUnitConflict(n.name, cur.unit, n.unit)),
                                  !.conflicted = @ \cup {n.name}]
            ELSE [acc EXCEPT !.required =
                      (n.name :> [qty |-> cur.qty + n.qty * mult, unit |-> n.unit]) @@ @]

RECURSIVE AddNeeds(_, _, _)
AddNeeds(acc, needs, mult) ==
    IF needs = <<>> THEN acc ELSE AddNeeds(AddNeed(acc, Head(needs), mult), Tail(needs), mult)

\* one meal of the plan, an unknown id reported at every reference
AddMeal_NoDedupe(acc, m, recByID, den) ==
    IF m.ID \notin DOMAIN recByID
    THEN [acc EXCEPT !.problems = Append(@, ProbUnknownRecipe(m.ID)),
                     !.unknownRecipe = @ \cup {m.ID}]
    ELSE IF m.Servings <= 0
    THEN IF m.ID \in acc.nonPosServ THEN acc
         ELSE [acc EXCEPT !.problems = Append(@, ProbNonPosServings(m.ID)),
                          !.nonPosServ = @ \cup {m.ID}]
    ELSE LET r == recByID[m.ID]
         IN AddNeeds(acc, r.needs, m.Servings * (den \div r.baseServ))

\* one meal of the plan
AddMeal(acc, m, recByID, den) ==
    IF m.ID \notin DOMAIN recByID
    THEN IF m.ID \in acc.unknownRecipe THEN acc
         ELSE [acc EXCEPT !.problems = Append(@, ProbUnknownRecipe(m.ID)),
                          !.unknownRecipe = @ \cup {m.ID}]
    ELSE IF m.Servings <= 0
    THEN IF m.ID \in acc.nonPosServ THEN acc
         ELSE [acc EXCEPT !.problems = Append(@, ProbNonPosServings(m.ID)),
                          !.nonPosServ = @ \cup {m.ID}]
    ELSE LET r == recByID[m.ID]
         IN AddNeeds(acc, r.needs, m.Servings * (den \div r.baseServ))

RECURSIVE AddMeals(_, _, _, _)
AddMeals(acc, meals, recByID, den) ==
    IF meals = <<>> THEN acc
    ELSE AddMeals(AddMeal(acc, Head(meals), recByID, den), Tail(meals), recByID, den)

RECURSIVE AddDays(_, _, _, _)
AddDays(acc, days, recByID, den) ==
    IF days = <<>> THEN acc
    ELSE AddDays(AddMeals(acc, Head(days).Meals, recByID, den), Tail(days), recByID, den)

\* the comparison that lets an item without pantry entry pass
CompareOne_IgnoresMissing(name, reqv, pantryIdx, den) ==
    IF name \notin DOMAIN pantryIdx THEN <<>>
    ELSE LET p == pantryIdx[name]
         IN IF p.unit # reqv.unit THEN <<ProbUnitMismatch(name, reqv.unit, p.unit)>>
            ELSE IF p.qty * den < reqv.qty
                 THEN <<ProbInsufficient(name, reqv.qty, den, reqv.unit, p.qty, p.unit)>>
                 ELSE <<>>

\* the comparison written `p.qty <= reqv.qty`
CompareOne_Strict(name, reqv, pantryIdx, den) ==
    IF name \notin DOMAIN pantryIdx THEN <<ProbMissing(name, reqv.qty, den, reqv.unit)>>
    ELSE LET p == pantryIdx[name]
         IN IF p.unit # reqv.unit THEN <<ProbUnitMismatch(name, reqv.unit, p.unit)>>
            ELSE IF p.qty * den <= reqv.qty
                 THEN <<ProbInsufficient(name, reqv.qty, den, reqv.unit, p.qty, p.unit)>>
                 ELSE <<>>

\* the comparison that looks at the quantities only
CompareOne_Coerces(name, reqv, pantryIdx, den) ==
    IF name \notin DOMAIN pantryIdx THEN <<ProbMissing(name, reqv.qty, den, reqv.unit)>>
    ELSE LET p == pantryIdx[name]
         IN IF p.qty * den < reqv.qty
            THEN <<ProbInsufficient(name, reqv.qty, den, reqv.unit, p.qty, p.unit)>>
            ELSE <<>>

\* compare required vs pantry for one name.  Quantities are multiples of
\* 1/den, far coarser than eps = 1e-9, so p.qty + eps < need is p.qty < need.
CompareOne(name, reqv, pantryIdx, den) ==
    IF name \notin DOMAIN pantryIdx THEN <<ProbMissing(name, reqv.qty, den, reqv.unit)>>
    ELSE LET p == pantryIdx[name]
         IN IF p.unit # reqv.unit THEN <<ProbUnitMismatch(name, reqv.unit, p.unit)>>
            ELSE IF p.qty * den < reqv.qty
                 THEN <<ProbInsufficient(name, reqv.qty, den, reqv.unit, p.qty, p.unit)>>
                 ELSE <<>>

\* for name, reqv := range required, in the iteration order `order`
RECURSIVE CompareAll(_, _, _, _)
CompareAll(order, required, pantryIdx, den) ==
    IF order = <<>> THEN <<>>
    ELSE CompareOne(Head(order), required[Head(order)], pantryIdx, den)
         \o CompareAll(Tail(order), required, pantryIdx, den)

\* the orders in which a map with key set S can be ranged over
Orders(S) == {o \in [1..Cardinality(S) -> S] : Range(o) = S}

\* an aggregation that keeps the catalog problems of the recipes the plan uses
Aggregate_FlagsOnUse(plan, recipes) ==
    LET idx == IndexRecipes(recipes, [problems |-> <<>>, recByID |-> EmptyMap])
        used == UNION {{plan.DaysPlanned[d].Meals[m].ID : m \in 1..Len(plan.DaysPlanned[d].Meals)} :
                          d \in 1..Len(plan.DaysPlanned)}
    IN AddDays([problems |-> SelectSeq(idx.problems, LAMBDA p : p.a \in used), required |-> EmptyMap,
                conflicted |-> {}, unknownRecipe |-> {}, nonPosServ |-> {}],
               plan.DaysPlanned, idx.recByID, Denominator(recipes))

\* the aggregation phase: catalog problems, then every meal of every day
Aggregate(plan, recipes) ==
    LET idx == IndexRecipes(recipes, [problems |-> <<>>, recByID |-> EmptyMap])
    IN AddDays([problems |-> idx.problems, required |-> EmptyMap,
                conflicted |-> {}, unknownRecipe |-> {}, nonPosServ |-> {}],
               plan.DaysPlanned, idx.recByID, Denominator(recipes))

\* the keys of `required` when the comparison loop starts
RequiredNames(finalJSON, recipes) ==
    LET um == Unmarshal(finalJSON)
    IN IF um.err # "nil" \/ Len(um.plan.DaysPlanned) = 0 THEN {}
       ELSE DOMAIN Aggregate(um.plan, recipes).required

\* checkFeasible without the early return for an empty days_planned
checkFeasibleIn_NoDaysCheck(finalJSON, pantry, recipes, order) ==
    LET um == Unmarshal(finalJSON)
        plan == um.plan
    IN IF um.err # "nil" THEN [ok |-> FALSE, problems |-> <<>>, err |-> "parse plan"]
       ELSE LET pantryIdx == IndexPantry(pantry.ingredients, EmptyMap)
                acc == Aggregate(plan, recipes)
                problems == acc.problems
                            \o CompareAll(order, acc.required, pantryIdx, Denominator(recipes))
            IN IF Len(problems) > 0
               THEN [ok |-> FALSE, problems |-> SortProblems(problems), err |-> "nil"]
               ELSE [ok |-> TRUE, problems |-> <<>>, err |-> "nil"]

\* checkFeasible, with the iteration order of `required` given by `order`
checkFeasibleIn(finalJSON, pantry, recipes, order) ==
    LET um == Unmarshal(finalJSON)
        plan == um.plan
    IN IF um.err # "nil" THEN [ok |-> FALSE, problems |-> <<>>, err |-> "parse plan"]
       ELSE IF Len(plan.DaysPlanned) = 0
       THEN [ok |-> FALSE, problems |-> <<ProbDaysEmpty>>, err |-> "nil"]
       ELSE LET pantryIdx == IndexPantry(pantry.ingredients, EmptyMap)
                acc == Aggregate(plan, recipes)
                problems == acc.problems
                            \o CompareAll(order, acc.required, pantryIdx, Denominator(recipes))
            IN IF Len(problems) > 0
               THEN [ok |-> FALSE, problems |-> SortProblems(problems), err |-> "nil"]
               ELSE [ok |-> TRUE, problems |-> <<>>, err |-> "nil"]

\* --------------------------------------------------- the coordinator's world
\* tools.NewRegistry registers exactly these two tools
Registered == {"pantry_get", "recipe_get"}

\* the names a model may request: the registered tools and one unknown name
ToolNames == Registered \cup {"slack_post"}

GetTool(name) == IF name \in Registered THEN [tool |-> name, err |-> "nil"]
                 ELSE [tool |-> "", err |-> "not found in registry"]

\* the errors the model client can return
InvokeErrors == {"timeout", "context canceled"}

Tasks == {"Plan meals for 2 days"}

\* the sets of tools whose storage is broken
FailingSets == {{}, {"pantry_get"}}

Ingredient(name, qty, unit) == [name |-> name, qty |-> qty, unit |-> unit]

Need(name, qty, unit, optional) == [name |-> name, qty |-> qty, unit |-> unit, optional |-> optional]

Recipe(id, servings, ingredients) == [id |-> id, servings |-> servings, ingredients |-> ingredients]

PantryCount == [ingredients |-> <<Ingredient("Egg ", 4, "count"), Ingredient("milk", 1, "cup")>>]

PantryDozen == [ingredients |-> <<Ingredient("egg", 4, "dozen"), Ingredient("milk", 1, "cup")>>]

Pantries == {PantryCount, PantryDozen}

Catalog == <<Recipe("r1", 1, <<Need("egg", 2, " count", FALSE), Need("salt", 1, "", TRUE)>>),
             Recipe("r2", 2, <<Need("milk", 1, "cup", FALSE)>>)>>

Catalogs == {Catalog}

\* candidate plans a model may answer with
PlanEggs == MealPlan("eggs", <<DayPlan(1, <<Meal("r1", "Eggs", 2)>>)>>)

PlanMilk == MealPlan("milk", <<DayPlan(1, <<Meal("r2", "Milk", 2)>>)>>)

PlanTooMany == MealPlan("eggs", <<DayPlan(1, <<Meal("r1", "Eggs", 2)>>), DayPlan(2, <<Meal("r1", "Eggs", 1)>>)>>)

PlanUnknown == MealPlan("other", <<DayPlan(1, <<Meal("r9", "Other", 1)>>)>>)

PlanNoSummary == MealPlan("", <<DayPlan(1, <<Meal("r1", "Eggs", 2)>>)>>)

PlanNoDays == MealPlan("none", <<>>)

PlanNoMeals == MealPlan("none", <<DayPlan(1, <<>>)>>)

PlanZeroServings == MealPlan("eggs", <<DayPlan(1, <<Meal("r1", "Eggs", 0)>>)>>)

\* a summary of 401 characters
LongSummary == "milk ... (401 characters)"

\* a plan whose day numbering starts at 0 and whose summary is too long
PlanOffShape == MealPlan(LongSummary, <<DayPlan(0, <<Meal("r2", "Milk", 2)>>)>>)

\* a meal without a name, of a recipe the pantry covers
PlanNoName == MealPlan("eggs", <<DayPlan(1, <<Meal("r1", "", 2)>>)>>)

Plans == {PlanEggs, PlanMilk, PlanTooMany, PlanUnknown, PlanNoSummary, PlanNoDays, PlanNoMeals,
          PlanZeroServings, PlanOffShape, PlanNoName}

\* the JSON object text of a plan
Object(p) == <<LB, Members(p), RB>>

\* texts a model may answer with
Texts == {<<>>, <<WS>>, <<JUNK>>, <<LB, JUNK>>, <<JUNK, RB>>, <<LB, JUNK, RB>>, <<LB, RB>>,
          <<WS>> \o Object(PlanEggs) \o <<WS>>, Object(PlanMilk) \o Object(PlanMilk)}
         \cup {Object(p) : p \in Plans}

Call(name, id) == [Name |-> name, Input |-> [current_day |-> 0], ToolUseID |-> id]

\* a batch of tool calls; the call ids follow the position
Batch(names) == [i \in 1..Len(names) |-> Call(names[i], i)]

\* the batches a model may request
Batches == {Batch(ns) : ns \in {<<"pantry_get">>, <<"recipe_get">>, <<"slack_post">>,
                                 <<"pantry_get", "recipe_get">>, <<"recipe_get", "pantry_get">>,
                                 <<"pantry_get", "pantry_get">>,
                                 <<"pantry_get", "pantry_get", "pantry_get">>,
                                 <<"slack_post", "pantry_get">>, <<"pantry_get", "slack_post">>}}

Response(content, calls) == [Content |-> content, ToolCalls |-> calls]

Responses == {Response(t, <<>>) : t \in Texts}
             \cup {Response(<<>>, b) : b \in Batches}
             \cup {Response(<<JUNK>>, Batch(<<"pantry_get">>)),
                   Response(Object(PlanEggs), Batch(<<"pantry_get", "recipe_get">>))}

NoResponse == Response(<<>>, <<>>)

\* ------------------------------------------------------------- messages
TextPart(text) == [Type |-> "text", Text |-> text, ToolUseID |-> 0, ToolName |-> "", Data |-> EmptyMap]

ToolUsePart(call) ==
    [Type |-> "tool_use", Text |-> <<>>, ToolUseID |-> call.ToolUseID, ToolName |-> call.Name,
     Data |-> call.Input]

ToolResult(id, name, data) == [ToolUseID |-> id, ToolName |-> name, Data |-> data]

Message(role, content) == [Role |-> role, Content |-> content]

NewToolResultMessage(results) ==
    Message("user", [i \in 1..Len(results) |->
                        [Type |-> "tool_result", Text |-> <<>>, ToolUseID |-> results[i].ToolUseID,
                         ToolName |-> results[i].ToolName, Data |-> results[i].Data]])

\* a text that is one literal or one marshalled JSON object
Literal(s) == <<[lit |-> s]>>

Marshal(obj) == <<[json |-> obj]>>

UserText(text) == Message("user", <<TextPart(text)>>)

NewPrompt(task) == <<Message("system", <<TextPart(Literal("systemPrompt"))>>), UserText(Literal(task))>>

SuggestToolsMsg == UserText(Marshal([tool_calls |-> <<"pantry_get", "recipe_get">>]))

InvalidFinalMsg(err) ==
    UserText(Marshal([error |-> "invalid_final_json", reason |-> <<"parse/shape error", err>>]))

FeasibilityFailedMsg(ferr) ==
    UserText(Marshal([error |-> "feasibility_check_failed", reason |-> ferr]))

InfeasibleMsg(probs) ==
    UserText(Marshal([error |-> "infeasible_plan", details |-> probs, hint |-> "revise recipe choices"]))

RepetitionMsg ==
    UserText(Marshal([error |-> "excessive_tool_repetition", hint |-> "use the existing data"]))

\* ------------------------------------------------------------------ state
VARIABLES
    coordinator,        \* which Coordinator was constructed: "bedrock", "ollama" or "mock"
    maxIterations,      \* Coordinator.maxIterations
    logger,             \* Coordinator.logger: "ok" never fails, "failing" always does, "none" is nil
    pantry,             \* Coordinator.pantry
    recipes,            \* Coordinator.recipes
    failing,            \* the tools whose storage fails to load, so that Tool.Run returns an error
    pc,                 \* "ready" before Run, "loop" at the head of the for loop, "returned"
    iter,               \* the loop variable of Run
    messages,           \* prompt.Messages
    toolsAlreadyCalled, \* the per-run repetition counts
    finalOut,           \* the local finalOut of Run
    res,                \* the response of the latest model invocation
    invokeErr,          \* the error of the latest model invocation, "nil" for none
    branch,             \* the branch of the loop body the latest iteration took
    out,                \* the string Run returned
    retErr,             \* the error Run returned, <<>> for nil
    invocations,        \* number of calls of llm.Invoke
    dispatched,         \* the tool names Tool.Run was called with, in call order
    iterLogs,           \* the IterationLogs handed to logger.LogIteration
    logReports,         \* number of "Failed to log coordination iteration" reports
    other,              \* the locals of a second call of Run on the same Coordinator, not running now
    fcArg,              \* the finalJSON of a direct call of checkFeasible
    fcPrev,             \* what the direct call before the latest one returned
    fcRet               \* what the latest direct call of checkFeasible returned

vars == <<coordinator, maxIterations, logger, pantry, recipes, failing, pc, iter, messages,
          toolsAlreadyCalled, finalOut, res, invokeErr, branch, out, retErr, invocations, dispatched,
          iterLogs, logReports, other, fcArg, fcPrev, fcRet>>

\* the fields of the Coordinator and the state of the tools' storage
config == <<coordinator, maxIterations, logger, pantry, recipes, failing>>

\* what a direct call of checkFeasible and a second call of Run keep
feas == <<fcArg, fcPrev, fcRet, other>>

\* what the logger has seen
logs == <<iterLogs, logReports>>

\* the locals and the return values of the call of Run that is running
locals == <<pc, iter, messages, toolsAlreadyCalled, finalOut, res, invokeErr, branch, out, retErr>>

\* no direct call of checkFeasible yet
NoReport == [ok |-> FALSE, problems |-> <<>>, err |-> "not called"]

Nil == <<>>

IterationLog(n, err) == [Iteration |-> n, Error |-> err]

\* the locals of a call of Run that has not started
Fresh == <<"ready", 0, <<>>, [n \in ToolNames |-> 0], <<>>, NoResponse, "nil", "none", <<>>, Nil>>

Init ==
    /\ coordinator = "bedrock"
    /\ logger = "ok"
    /\ maxIterations \in 0..MaxIterations
    /\ pantry \in Pantries
    /\ recipes \in Catalogs
    /\ failing \in FailingSets
    /\ pc = "ready"
    /\ iter = 0
    /\ messages = <<>>
    /\ toolsAlreadyCalled = [n \in ToolNames |-> 0]
    /\ finalOut = <<>>
    /\ res = NoResponse
    /\ invokeErr = "nil"
    /\ branch = "none"
    /\ out = <<>>
    /\ retErr = Nil
    /\ invocations = 0
    /\ dispatched = <<>>
    /\ iterLogs = <<>>
    /\ logReports = 0
    /\ other = Fresh
    /\ fcArg = <<>>
    /\ fcPrev = NoReport
    /\ fcRet = NoReport

\* ---------------------------------------------------- pieces of the loop body
\* the syntactic gate without the suffix test
LooksFinal_PrefixOnly(finalJSON) == ~(finalJSON = <<>> \/ ~HasPrefixBrace(finalJSON))

\* finalJSON passes the syntactic gate (the negation of the test at line 110)
LooksFinal(finalJSON) ==
    ~(finalJSON = <<>> \/ ~HasPrefixBrace(finalJSON) \/ ~HasSuffixBrace(finalJSON))

\* the structural gate without the IsValid test
FailsSchema_ParseOnly(finalJSON) == Unmarshal(finalJSON).err # "nil"

\* the structural gate: err != nil || !mealPlan.IsValid()
FailsSchema(finalJSON) ==
    LET um == Unmarshal(finalJSON) IN um.err # "nil" \/ ~IsValid(um.plan)

\* the repetition loop with the test `> 3`
RECURSIVE CountCalls_Threshold3(_, _)
CountCalls_Threshold3(calls, counts) ==
    IF calls = <<>> THEN [counts |-> counts, hasExcessiveRepetition |-> FALSE]
    ELSE LET name == Head(calls).Name
             next == [counts EXCEPT ![name] = @ + 1]
         IN IF (name = "pantry_get" \/ name = "recipe_get") /\ next[name] > 3
            THEN [counts |-> next, hasExcessiveRepetition |-> TRUE]
            ELSE CountCalls_Threshold3(Tail(calls), next)

\* a repetition loop that leaves the offending call itself uncounted
RECURSIVE CountCalls_SkipsOffender(_, _)
CountCalls_SkipsOffender(calls, counts) ==
    IF calls = <<>> THEN [counts |-> counts, hasExcessiveRepetition |-> FALSE]
    ELSE LET name == Head(calls).Name
             next == [counts EXCEPT ![name] = @ + 1]
         IN IF (name = "pantry_get" \/ name = "recipe_get") /\ next[name] > 2
            THEN [counts |-> counts, hasExcessiveRepetition |-> TRUE]
            ELSE CountCalls_SkipsOffender(Tail(calls), next)

\* the repetition loop: counts every call up to and including the offending one
RECURSIVE CountCalls(_, _)
CountCalls(calls, counts) ==
    IF calls = <<>> THEN [counts |-> counts, hasExcessiveRepetition |-> FALSE]
    ELSE LET name == Head(calls).Name
             next == [counts EXCEPT ![name] = @ + 1]
         IN IF (name = "pantry_get" \/ name = "recipe_get") /\ next[name] > 2
            THEN [counts |-> next, hasExcessiveRepetition |-> TRUE]
            ELSE CountCalls(Tail(calls), next)

\* the assistant message of the tool path
AssistantMsg(r) ==
    Message("assistant",
            (IF r.Content # <<>> THEN <<TextPart(r.Content)>> ELSE <<>>)
            \o [i \in 1..Len(r.ToolCalls) |-> ToolUsePart(r.ToolCalls[i])])

\* the dispatch loop: one ToolResult per call, in request order
DispatchOne(call, bad) ==
    LET g == GetTool(call.Name)
    IN IF g.err # "nil"
       THEN [ran |-> <<>>,
             result |-> ToolResult(call.ToolUseID, call.Name, [error |-> <<"not found", call.Name>>])]
       ELSE IF g.tool \in bad
       THEN [ran |-> <<g.tool>>,
             result |-> ToolResult(call.ToolUseID, g.tool, [error |-> <<"failed", call.Name>>])]
       ELSE [ran |-> <<g.tool>>,
             result |-> ToolResult(call.ToolUseID, g.tool, [output |-> g.tool])]

\* a dispatch loop that runs the batch from its last call to its first
RECURSIVE Dispatch_Reversed(_, _)
Dispatch_Reversed(calls, bad) ==
    IF calls = <<>> THEN [ran |-> <<>>, results |-> <<>>]
    ELSE LET d == DispatchOne(Head(calls), bad)
             rest == Dispatch_Reversed(Tail(calls), bad)
         IN [ran |-> rest.ran \o d.ran, results |-> rest.results \o <<d.result>>]

RECURSIVE Dispatch(_, _)
Dispatch(calls, bad) ==
    IF calls = <<>> THEN [ran |-> <<>>, results |-> <<>>]
    ELSE LET d == DispatchOne(Head(calls), bad)
             rest == Dispatch(Tail(calls), bad)
         IN [ran |-> d.ran \o rest.ran, results |-> <<d.result>> \o rest.results]

\* logIteration called only on the paths that set iterLog.Error
logIteration_ErrorsOnly(err) ==
    IF logger = "none" \/ err = ""
    THEN UNCHANGED logs
    ELSE /\ iterLogs' = Append(iterLogs, IterationLog(iter + 1, err))
         /\ logReports' = IF logger = "failing" THEN logReports + 1 ELSE logReports

\* c.logIteration(iterLog): no call without a logger; an error of
\* LogIteration is reported with slog.Error and goes no further
logIteration(err) ==
    IF logger = "none"
    THEN UNCHANGED logs
    ELSE /\ iterLogs' = Append(iterLogs, IterationLog(iter + 1, err))
         /\ logReports' = IF logger = "failing" THEN logReports + 1 ELSE logReports

\* an error return that hands back the text of the latest answer
Return_LastAnswerOnError(o, e) ==
    pc' = "returned" /\ out' = (IF e = Nil THEN o ELSE res.Content) /\ retErr' = e

\* return out, err
Return(o, e) == pc' = "returned" /\ out' = o /\ retErr' = e

\* the loop test written `iter <= c.maxIterations`
LoopTest_OffByOne(i) == i <= maxIterations

\* the loop test
LoopTest(i) == i < maxIterations

\* the end of a loop body that returns the error of LogIteration
NextIteration_AbortsOnLogError ==
    IF logReports' # logReports
    THEN iter' = iter /\ Return(<<>>, <<"failed to log iteration">>)
    ELSE /\ iter' = iter + 1
         /\ IF LoopTest(iter + 1)
            THEN pc' = "loop" /\ UNCHANGED <<out, retErr>>
            ELSE Return(finalOut, Nil)

\* `continue` or the end of the loop body: iter++, then the loop test; when
\* it fails Run returns finalOut, nil
NextIteration ==
    /\ iter' = iter + 1
    /\ IF LoopTest(iter + 1)
       THEN pc' = "loop" /\ UNCHANGED <<out, retErr>>
       ELSE Return(finalOut, Nil)

\* llm.Invoke returned r
Invoked(r) == res' = r /\ invokeErr' = "nil" /\ invocations' = invocations + 1

InLoop == pc = "loop"

\* ---------------------------------------------------------------- actions
\* Run up to the first loop test: NewPrompt, fresh finalOut and counts
RunStart ==
    /\ pc = "ready"
    /\ \E task \in Tasks : messages' = NewPrompt(task)
    /\ finalOut' = <<>>
    /\ toolsAlreadyCalled' = [n \in ToolNames |-> 0]
    /\ iter' = 0
    /\ IF LoopTest(0)
       THEN pc' = "loop" /\ UNCHANGED <<out, retErr>>
       ELSE Return(<<>>, Nil)
    /\ UNCHANGED <<feas, config, res, invokeErr, branch, invocations, dispatched, logs>>

\* a failed invocation that is logged and retried instead of returned
IterInvokeFails_Retries ==
    /\ InLoop
    /\ \E e \in InvokeErrors :
          /\ invokeErr' = e
          /\ logIteration(e)
    /\ res' = NoResponse
    /\ invocations' = invocations + 1
    /\ branch' = "invoke_error"
    /\ NextIteration
    /\ UNCHANGED <<feas, config, messages, toolsAlreadyCalled, finalOut, dispatched>>

\* an iteration whose model invocation fails (lines 90-95)
IterInvokeFails ==
    /\ InLoop
    /\ \E e \in InvokeErrors :
          /\ invokeErr' = e
          /\ logIteration(e)
          /\ Return(<<>>, <<"invoke failed", e>>)
    /\ res' = NoResponse
    /\ invocations' = invocations + 1
    /\ branch' = "invoke_error"
    /\ UNCHANGED <<feas, config, iter, messages, toolsAlreadyCalled, finalOut, dispatched>>

\* a suggest-tools branch that continues without appending its message
IterSuggestTools_Silent ==
    /\ InLoop
    /\ \E r \in Responses :
          /\ Len(r.ToolCalls) = 0
          /\ ~LooksFinal(TrimSpace(r.Content))
          /\ Invoked(r)
    /\ messages' = messages
    /\ logIteration("")
    /\ branch' = "suggest_tools"
    /\ NextIteration
    /\ UNCHANGED <<feas, config, toolsAlreadyCalled, finalOut, dispatched>>

\* an iteration whose response has no tool calls and does not look like a
\* JSON object (lines 105-123)
IterSuggestTools ==
    /\ InLoop
    /\ \E r \in Responses :
          /\ Len(r.ToolCalls) = 0
          /\ ~LooksFinal(TrimSpace(r.Content))
          /\ Invoked(r)
    /\ messages' = Append(messages, SuggestToolsMsg)
    /\ logIteration("")
    /\ branch' = "suggest_tools"
    /\ NextIteration
    /\ UNCHANGED <<feas, config, toolsAlreadyCalled, finalOut, dispatched>>

\* a schema failure that aborts the run
IterInvalidFinal_Fatal ==
    /\ InLoop
    /\ \E r \in Responses :
          LET finalJSON == TrimSpace(r.Content) IN
          /\ Len(r.ToolCalls) = 0
          /\ LooksFinal(finalJSON)
          /\ FailsSchema(finalJSON)
          /\ Invoked(r)
    /\ logIteration("invalid final json")
    /\ branch' = "invalid_final_json"
    /\ Return(<<>>, <<"invalid final json">>)
    /\ UNCHANGED <<feas, config, iter, messages, toolsAlreadyCalled, finalOut, dispatched>>

\* an iteration whose candidate fails the schema validation (lines 125-141)
IterInvalidFinal ==
    /\ InLoop
    /\ \E r \in Responses :
          LET finalJSON == TrimSpace(r.Content) IN
          /\ Len(r.ToolCalls) = 0
          /\ LooksFinal(finalJSON)
          /\ FailsSchema(finalJSON)
          /\ Invoked(r)
          /\ messages' = Append(messages,
                 InvalidFinalMsg(IF Unmarshal(finalJSON).err = "nil" THEN "<nil>"
                                 ELSE Unmarshal(finalJSON).err))
    /\ logIteration("")
    /\ branch' = "invalid_final_json"
    /\ NextIteration
    /\ UNCHANGED <<feas, config, toolsAlreadyCalled, finalOut, dispatched>>

\* a refusal whose corrective message leaves the problems out
IterInfeasible_NoDetails ==
    /\ InLoop
    /\ \E r \in Responses :
          LET finalJSON == TrimSpace(r.Content) IN
          /\ Len(r.ToolCalls) = 0
          /\ LooksFinal(finalJSON)
          /\ ~FailsSchema(finalJSON)
          /\ \E order \in Orders(RequiredNames(finalJSON, recipes)) :
                LET f == checkFeasibleIn(finalJSON, pantry, recipes, order) IN
                f.err # "nil" \/ ~f.ok
          /\ Invoked(r)
    /\ messages' = Append(messages, InfeasibleMsg(<<>>))
    /\ logIteration("infeasible final plan")
    /\ branch' = "infeasible_plan"
    /\ NextIteration
    /\ UNCHANGED <<feas, config, toolsAlreadyCalled, finalOut, dispatched>>

\* an iteration whose candidate passes the schema validation and is refused
\* by the feasibility check (lines 156-188)
IterInfeasible ==
    /\ InLoop
    /\ \E r \in Responses :
          LET finalJSON == TrimSpace(r.Content) IN
          /\ Len(r.ToolCalls) = 0
          /\ LooksFinal(finalJSON)
          /\ ~FailsSchema(finalJSON)
          /\ \E order \in Orders(RequiredNames(finalJSON, recipes)) :
                LET f == checkFeasibleIn(finalJSON, pantry, recipes, order) IN
                /\ f.err # "nil" \/ ~f.ok
                /\ IF f.err # "nil"
                   THEN /\ messages' = Append(messages, FeasibilityFailedMsg(f.err))
                        /\ logIteration("")
                   ELSE /\ messages' = Append(messages, InfeasibleMsg(f.problems))
                        /\ logIteration("infeasible final plan")
          /\ Invoked(r)
    /\ branch' = "infeasible_plan"
    /\ NextIteration
    /\ UNCHANGED <<feas, config, toolsAlreadyCalled, finalOut, dispatched>>

\* an acceptance that stores the candidate and goes on looping
IterAccept_Continues ==
    /\ InLoop
    /\ \E r \in Responses :
          LET finalJSON == TrimSpace(r.Content) IN
          /\ Len(r.ToolCalls) = 0
          /\ LooksFinal(finalJSON)
          /\ ~FailsSchema(finalJSON)
          /\ \E order \in Orders(RequiredNames(finalJSON, recipes)) :
                LET f == checkFeasibleIn(finalJSON, pantry, recipes, order) IN
                f.err = "nil" /\ f.ok
          /\ Invoked(r)
          /\ finalOut' = finalJSON
          /\ iter' = iter + 1
          /\ IF LoopTest(iter + 1)
             THEN pc' = "loop" /\ UNCHANGED <<out, retErr>>
             ELSE Return(finalJSON, Nil)
    /\ logIteration("")
    /\ branch' = "accept"
    /\ UNCHANGED <<feas, config, messages, toolsAlreadyCalled, dispatched>>

\* an acceptance that looks at the text whether or not tool calls came with it
IterAccept_IgnoresCalls ==
    /\ InLoop
    /\ \E r \in Responses :
          LET finalJSON == TrimSpace(r.Content) IN
          /\ LooksFinal(finalJSON)
          /\ ~FailsSchema(finalJSON)
          /\ \E order \in Orders(RequiredNames(finalJSON, recipes)) :
                LET f == checkFeasibleIn(finalJSON, pantry, recipes, order) IN
                f.err = "nil" /\ f.ok
          /\ Invoked(r)
          /\ finalOut' = finalJSON
          /\ Return(finalJSON, Nil)
    /\ logIteration("")
    /\ branch' = "accept"
    /\ UNCHANGED <<feas, config, iter, messages, toolsAlreadyCalled, dispatched>>

\* an iteration whose candidate is accepted (lines 156-193, then line 289)
IterAccept ==
    /\ InLoop
    /\ \E r \in Responses :
          LET finalJSON == TrimSpace(r.Content) IN
          /\ Len(r.ToolCalls) = 0
          /\ LooksFinal(finalJSON)
          /\ ~FailsSchema(finalJSON)
          /\ \E order \in Orders(RequiredNames(finalJSON, recipes)) :
                LET f == checkFeasibleIn(finalJSON, pantry, recipes, order) IN
                f.err = "nil" /\ f.ok
          /\ Invoked(r)
          /\ finalOut' = finalJSON
          /\ Return(finalJSON, Nil)
    /\ logIteration("")
    /\ branch' = "accept"
    /\ UNCHANGED <<feas, config, iter, messages, toolsAlreadyCalled, dispatched>>

\* a guard that fails the run instead of redirecting it
IterRepetition_Halts ==
    /\ InLoop
    /\ \E r \in Responses :
          LET c == CountCalls(r.ToolCalls, toolsAlreadyCalled) IN
          /\ Len(r.ToolCalls) # 0
          /\ c.hasExcessiveRepetition
          /\ Invoked(r)
          /\ toolsAlreadyCalled' = c.counts
    /\ messages' = Append(messages, RepetitionMsg)
    /\ logIteration("excessive tool repetition")
    /\ branch' = "excessive_tool_repetition"
    /\ Return(<<>>, <<"excessive tool repetition">>)
    /\ UNCHANGED <<feas, config, iter, finalOut, dispatched>>

\* an iteration whose batch trips the repetition guard (lines 196-223)
IterRepetition ==
    /\ InLoop
    /\ \E r \in Responses :
          LET c == CountCalls(r.ToolCalls, toolsAlreadyCalled) IN
          /\ Len(r.ToolCalls) # 0
          /\ c.hasExcessiveRepetition
          /\ Invoked(r)
          /\ toolsAlreadyCalled' = c.counts
    /\ messages' = Append(messages, RepetitionMsg)
    /\ logIteration("excessive tool repetition")
    /\ branch' = "excessive_tool_repetition"
    /\ NextIteration
    /\ UNCHANGED <<feas, config, finalOut, dispatched>>

\* a tool phase that returns the error of the first tool that fails
IterTools_FailFast ==
    /\ InLoop
    /\ \E r \in Responses :
          LET c == CountCalls(r.ToolCalls, toolsAlreadyCalled)
              d == Dispatch(r.ToolCalls, failing)
          IN /\ Len(r.ToolCalls) # 0
             /\ ~c.hasExcessiveRepetition
             /\ Invoked(r)
             /\ toolsAlreadyCalled' = c.counts
             /\ IF \E i \in 1..Len(r.ToolCalls) : r.ToolCalls[i].Name \in failing
                THEN /\ dispatched' = dispatched
                     /\ messages' = Append(messages, AssistantMsg(r))
                     /\ Return(<<>>, <<"tool failed">>)
                     /\ iter' = iter
                ELSE /\ dispatched' = dispatched \o d.ran
                     /\ messages' = messages \o <<AssistantMsg(r)>>
                                    \o (IF Len(d.results) > 0 THEN <<NewToolResultMessage(d.results)>>
                                        ELSE <<>>)
                     /\ NextIteration
    /\ logIteration("")
    /\ branch' = "tools"
    /\ UNCHANGED <<feas, config, finalOut>>

\* an iteration that executes its batch of tool calls (lines 196-207, 225-286)
IterTools ==
    /\ InLoop
    /\ \E r \in Responses :
          LET c == CountCalls(r.ToolCalls, toolsAlreadyCalled)
              d == Dispatch(r.ToolCalls, failing)
          IN /\ Len(r.ToolCalls) # 0
             /\ ~c.hasExcessiveRepetition
             /\ Invoked(r)
             /\ toolsAlreadyCalled' = c.counts
             /\ dispatched' = dispatched \o d.ran
             /\ messages' = messages \o <<AssistantMsg(r)>>
                            \o (IF Len(d.results) > 0 THEN <<NewToolResultMessage(d.results)>>
                                ELSE <<>>)
    /\ logIteration("")
    /\ branch' = "tools"
    /\ NextIteration
    /\ UNCHANGED <<feas, config, finalOut>>

Next ==
    \/ RunStart
    \/ IterInvokeFails
    \/ IterSuggestTools
    \/ IterInvalidFinal
    \/ IterInfeasible
    \/ IterAccept
    \/ IterRepetition
    \/ IterTools

Spec == Init /\ [][Next]_vars

\* ------------------------------------------- direct calls of checkFeasible
\* A coordinator built over a snapshot, whose checkFeasible is called on a
\* candidate text, as TestCoordinatorFeasibilityCheck does.
PantryTwelve == [ingredients |-> <<Ingredient("egg", 12, "count"), Ingredient("milk", 1, "cup")>>]

PantryBare == [ingredients |-> <<>>]

FeasPantries == {PantryCount, PantryDozen, PantryTwelve, PantryBare}

\* a catalog whose first recipe has a zero base servings, a need with a
\* non-positive quantity and a need without unit
CatalogDefects == <<Recipe("r1", 0, <<Need("egg", 2, "count", FALSE), Need("milk", 0, "cup", FALSE),
                                       Need("salt", 1, "", FALSE)>>),
                    Recipe("r2", 2, <<Need("milk", 1, "cup", FALSE)>>)>>

\* two recipes that need egg in different units
CatalogConflict == <<Recipe("r1", 1, <<Need("egg", 2, "count", FALSE)>>),
                     Recipe("r2", 2, <<Need("egg", 1, "dozen", FALSE), Need("milk", 1, "cup", FALSE)>>)>>

\* optional needs that would count, conflict, or lack a unit, a quantity or a pantry entry
CatalogOptional == <<Recipe("r1", 1, <<Need("egg", 2, "count", FALSE), Need("egg", 9, "count", TRUE),
                                        Need("milk", 0, "", TRUE), Need("salt", 1, "cup", TRUE)>>),
                     Recipe("r2", 2, <<Need("milk", 1, "cup", FALSE), Need("egg", 1, "dozen", TRUE)>>)>>

\* ids and names that need trimming and lower-casing
CatalogSpaced == <<Recipe(" r1 ", 1, <<Need("Egg ", 2, " count", FALSE)>>),
                   Recipe("r2", 2, <<Need("milk", 1, "cup", FALSE)>>)>>

FeasCatalogs == {Catalog, CatalogDefects, CatalogConflict, CatalogOptional, CatalogSpaced}

PlanTen == MealPlan("ten", <<DayPlan(1, <<Meal("r1", "Eggs", 10)>>)>>)

PlanBoth == MealPlan("both", <<DayPlan(1, <<Meal("r1", "Eggs", 1), Meal("r2", "Milk", 2)>>)>>)

PlanUnknownTwice == MealPlan("twice", <<DayPlan(1, <<Meal("r9", "Other", 1), Meal("r1", "Eggs", 1)>>),
                                        DayPlan(2, <<Meal("r9", "Other", 2), Meal("", "None", 1)>>)>>)

\* recipes r1 and r2 in turn, twice over
PlanAlternating == MealPlan("mixed", <<DayPlan(1, <<Meal("r1", "Eggs", 1), Meal("r2", "Milk", 2)>>),
                                       DayPlan(2, <<Meal("r2", "Milk", 2), Meal("r1", "Eggs", 1)>>)>>)

FeasPlans == Plans \cup {PlanTen, PlanBoth, PlanUnknownTwice, PlanAlternating}

FeasTexts == {Object(p) : p \in FeasPlans} \cup {<<LB, RB>>, <<LB, JUNK, RB>>, <<JUNK>>}

FeasInit ==
    /\ coordinator = "bedrock"
    /\ logger = "ok"
    /\ maxIterations = MaxIterations
    /\ pantry \in FeasPantries
    /\ recipes \in FeasCatalogs
    /\ failing = {}
    /\ pc = "ready"
    /\ iter = 0
    /\ messages = <<>>
    /\ toolsAlreadyCalled = [n \in ToolNames |-> 0]
    /\ finalOut = <<>>
    /\ res = NoResponse
    /\ invokeErr = "nil"
    /\ branch = "none"
    /\ out = <<>>
    /\ retErr = Nil
    /\ invocations = 0
    /\ dispatched = <<>>
    /\ iterLogs = <<>>
    /\ logReports = 0
    /\ other = Fresh
    /\ fcArg \in FeasTexts
    /\ fcPrev = NoReport
    /\ fcRet = NoReport

\* ok, problems, err := c.checkFeasible(finalJSON)
FeasCheck ==
    /\ \E order \in Orders(RequiredNames(fcArg, recipes)) :
          fcRet' = checkFeasibleIn(fcArg, pantry, recipes, order)
    /\ fcPrev' = fcRet
    /\ UNCHANGED <<config, other, fcArg, pc, iter, messages, toolsAlreadyCalled, finalOut, res, invokeErr,
                   branch, out, retErr, invocations, dispatched, logs>>

FeasNext == FeasCheck

FeasSpec == FeasInit /\ [][FeasNext]_vars

\* ------------------------------------------------- the Ollama coordinator
\* ollama.Coordinator.Run over the same tool provider.  It has no snapshot
\* and no repetition counts: pantry, recipes and toolsAlreadyCalled stay as
\* they are.
OllamaMessage(role, content, name) == [Role |-> role, Content |-> content, Name |-> name]

OllamaNewPrompt(task) == <<OllamaMessage("system", Literal("systemPrompt"), ""),
                           OllamaMessage("user", Literal(task), "")>>

\* Prompt.HasToolResult
HasToolResult(msgs, tool) == \E i \in 1..Len(msgs) : msgs[i].Role = "tool" /\ msgs[i].Name = tool

OllamaNudgeMsg == OllamaMessage("user", Literal("Before finalizing, call pantry_get and recipe_get"), "")

ToolCall(name, day) == [Name |-> name, Args |-> [current_day |-> day]]

OllamaTexts == {<<>>, <<WS>>, <<JUNK>>, Object(PlanEggs)}

OllamaBatches == {<<ToolCall("pantry_get", 0)>>, <<ToolCall("recipe_get", 0)>>, <<ToolCall("slack_post", 0)>>,
                  <<ToolCall("pantry_get", 0), ToolCall("recipe_get", 0)>>,
                  <<ToolCall("recipe_get", 0), ToolCall("pantry_get", 0)>>,
                  <<ToolCall("recipe_get", 0), ToolCall("recipe_get", 0), ToolCall("pantry_get", 0)>>,
                  <<ToolCall("recipe_get", 0), ToolCall("recipe_get", 1)>>,
                  <<ToolCall("recipe_get", 0), ToolCall("slack_post", 0), ToolCall("pantry_get", 0)>>}

OllamaResponses == {Response(t, <<>>) : t \in OllamaTexts}
                   \cup {Response(<<>>, b) : b \in OllamaBatches}
                   \cup {Response(<<JUNK>>, <<ToolCall("pantry_get", 0)>>)}

OllamaFailingSets == SUBSET Registered

\* a deduplication keyed on the tool name alone
RECURSIVE dedupe_ByName(_, _)
dedupe_ByName(calls, seen) ==
    IF calls = <<>> THEN <<>>
    ELSE LET key == Head(calls).Name
         IN IF key \in seen THEN dedupe_ByName(Tail(calls), seen)
            ELSE <<Head(calls)>> \o dedupe_ByName(Tail(calls), seen \cup {key})

\* dedupeToolCalls: the first call of every (name, args)
RECURSIVE dedupe(_, _)
dedupe(calls, seen) ==
    IF calls = <<>> THEN <<>>
    ELSE LET key == <<Head(calls).Name, Head(calls).Args>>
         IN IF key \in seen THEN dedupe(Tail(calls), seen)
            ELSE <<Head(calls)>> \o dedupe(Tail(calls), seen \cup {key})

dedupeToolCalls(calls) == dedupe(calls, {})

\* the loop over toolCalls, up to its end or to the first return: the tools
\* run, the tool messages appended, the error returned and the value
\* returned with it
RECURSIVE OllamaDispatch(_, _, _)
OllamaDispatch(calls, bad, fin) ==
    IF calls = <<>> THEN [ran |-> <<>>, msgs |-> <<>>, err |-> Nil, out |-> fin]
    ELSE LET call == Head(calls)
             g == GetTool(call.Name)
         IN IF g.err # "nil"
            THEN [ran |-> <<>>, msgs |-> <<>>, err |-> <<"failed to get tool", call.Name>>, out |-> fin]
            ELSE IF g.tool \in bad
            THEN [ran |-> <<g.tool>>, msgs |-> <<>>, err |-> <<"failed to run tool", call.Name>>,
                  out |-> <<>>]
            ELSE LET rest == OllamaDispatch(Tail(calls), bad, fin)
                 IN [ran |-> <<g.tool>> \o rest.ran,
                     msgs |-> <<OllamaMessage("tool", Marshal([output |-> g.tool]), g.tool)>> \o rest.msgs,
                     err |-> rest.err, out |-> rest.out]

OllamaInit ==
    /\ coordinator = "ollama"
    /\ logger = "ok"
    /\ maxIterations \in 0..MaxIterations
    /\ pantry = PantryCount
    /\ recipes = Catalog
    /\ failing \in OllamaFailingSets
    /\ pc = "ready"
    /\ iter = 0
    /\ messages = <<>>
    /\ toolsAlreadyCalled = [n \in ToolNames |-> 0]
    /\ finalOut = <<>>
    /\ res = NoResponse
    /\ invokeErr = "nil"
    /\ branch = "none"
    /\ out = <<>>
    /\ retErr = Nil
    /\ invocations = 0
    /\ dispatched = <<>>
    /\ iterLogs = <<>>
    /\ logReports = 0
    /\ other = Fresh
    /\ fcArg = <<>>
    /\ fcPrev = NoReport
    /\ fcRet = NoReport

\* Run up to the first loop test (lines 42-55)
OllamaRunStart ==
    /\ pc = "ready"
    /\ \E task \in Tasks : messages' = OllamaNewPrompt(task)
    /\ finalOut' = <<>>
    /\ iter' = 0
    /\ IF LoopTest(0)
       THEN pc' = "loop" /\ UNCHANGED <<out, retErr>>
       ELSE Return(<<>>, Nil)
    /\ UNCHANGED <<feas, config, toolsAlreadyCalled, res, invokeErr, branch, invocations, dispatched,
                   logs>>

\* an iteration whose model invocation fails (lines 80-85)
OllamaInvokeFails ==
    /\ InLoop
    /\ \E e \in InvokeErrors :
          /\ invokeErr' = e
          /\ logIteration(e)
          /\ Return(finalOut, <<"failed to invoke LLM", e>>)
    /\ res' = NoResponse
    /\ invocations' = invocations + 1
    /\ branch' = "invoke_error"
    /\ UNCHANGED <<feas, config, iter, messages, toolsAlreadyCalled, finalOut, dispatched>>

\* content without tool calls before both tool results are in the history
\* (lines 95-109)
OllamaNudge ==
    /\ InLoop
    /\ \E r \in OllamaResponses :
          /\ Len(r.ToolCalls) = 0 /\ r.Content # <<>>
          /\ ~(HasToolResult(messages, "pantry_get") /\ HasToolResult(messages, "recipe_get"))
          /\ Invoked(r)
    /\ messages' = Append(messages, OllamaNudgeMsg)
    /\ logIteration("")
    /\ branch' = "nudge"
    /\ NextIteration
    /\ UNCHANGED <<feas, config, toolsAlreadyCalled, finalOut, dispatched>>

\* an acceptance that is content with the result of either tool
OllamaAccept_EitherResult ==
    /\ InLoop
    /\ \E r \in OllamaResponses :
          /\ Len(r.ToolCalls) = 0 /\ r.Content # <<>>
          /\ HasToolResult(messages, "pantry_get") \/ HasToolResult(messages, "recipe_get")
          /\ Invoked(r)
          /\ finalOut' = r.Content
          /\ Return(r.Content, Nil)
    /\ logIteration("")
    /\ branch' = "accept"
    /\ UNCHANGED <<feas, config, iter, messages, toolsAlreadyCalled, dispatched>>

\* content without tool calls once both tool results are in the history:
\* accepted as it is (lines 95-97, 111-115, 182)
OllamaAccept ==
    /\ InLoop
    /\ \E r \in OllamaResponses :
          /\ Len(r.ToolCalls) = 0 /\ r.Content # <<>>
          /\ HasToolResult(messages, "pantry_get") /\ HasToolResult(messages, "recipe_get")
          /\ Invoked(r)
          /\ finalOut' = r.Content
          /\ Return(r.Content, Nil)
    /\ logIteration("")
    /\ branch' = "accept"
    /\ UNCHANGED <<feas, config, iter, messages, toolsAlreadyCalled, dispatched>>

\* a response with neither tool calls nor content (lines 119-124)
OllamaEmpty ==
    /\ InLoop
    /\ \E r \in OllamaResponses :
          /\ Len(r.ToolCalls) = 0 /\ r.Content = <<>>
          /\ Invoked(r)
    /\ logIteration("no tool_calls and no final content")
    /\ branch' = "empty"
    /\ Return(<<>>, <<"no tool_calls and no final content">>)
    /\ UNCHANGED <<feas, config, iter, messages, toolsAlreadyCalled, finalOut, dispatched>>

\* a tool phase that goes on after a failed lookup or a failed tool
OllamaToolFails_Embeds ==
    /\ InLoop
    /\ \E r \in OllamaResponses :
          LET d == OllamaDispatch(dedupeToolCalls(r.ToolCalls), failing, finalOut) IN
          /\ Len(r.ToolCalls) # 0
          /\ d.err # Nil
          /\ Invoked(r)
          /\ dispatched' = dispatched \o d.ran
          /\ messages' = messages \o d.msgs
                         \o <<OllamaMessage("tool", Marshal([error |-> d.err]), d.err[2])>>
    /\ logIteration("")
    /\ branch' = "tool_error"
    /\ NextIteration
    /\ UNCHANGED <<feas, config, toolsAlreadyCalled, finalOut>>

\* a tool phase that returns at a failed lookup or a failed tool
\* (lines 128-154)
OllamaToolFails ==
    /\ InLoop
    /\ \E r \in OllamaResponses :
          LET d == OllamaDispatch(dedupeToolCalls(r.ToolCalls), failing, finalOut) IN
          /\ Len(r.ToolCalls) # 0
          /\ d.err # Nil
          /\ Invoked(r)
          /\ dispatched' = dispatched \o d.ran
          /\ messages' = messages \o d.msgs
          /\ Return(d.out, d.err)
    /\ logIteration("")
    /\ branch' = "tool_error"
    /\ UNCHANGED <<feas, config, iter, toolsAlreadyCalled, finalOut>>

\* a tool phase whose calls all succeed (lines 128-179)
OllamaTools ==
    /\ InLoop
    /\ \E r \in OllamaResponses :
          LET d == OllamaDispatch(dedupeToolCalls(r.ToolCalls), failing, finalOut) IN
          /\ Len(r.ToolCalls) # 0
          /\ d.err = Nil
          /\ Invoked(r)
          /\ dispatched' = dispatched \o d.ran
          /\ messages' = messages \o d.msgs
    /\ logIteration("")
    /\ branch' = "tools"
    /\ NextIteration
    /\ UNCHANGED <<feas, config, toolsAlreadyCalled, finalOut>>

OllamaNext ==
    \/ OllamaRunStart
    \/ OllamaInvokeFails
    \/ OllamaNudge
    \/ OllamaAccept
    \/ OllamaEmpty
    \/ OllamaToolFails
    \/ OllamaTools

OllamaSpec == OllamaInit /\ [][OllamaNext]_vars

\* ------------------------------------------------- the mock coordinator
\* the tasks of TestMockCoordinator
MockTasks == {"Plan dinners for the next 2 days for 2 servings each",
              "Plan breakfast and lunch for 1 day", "Plan meals"}

\* the JSON object {"tool_calls": [pantry_get, recipe_get]} the mock model plans with
ToolCallsObject ==
    <<LB, [tool_calls |-> <<[name |-> "pantry_get", input |-> [current_day |-> 0]],
                           [name |-> "recipe_get", input |-> [meal_types |-> <<"dinner">>]]>>], RB>>

\* the final plan of the mock model
MockFinalPlan ==
    MealPlan("Planned 1 dinner prioritizing items with low days_left.",
             <<DayPlan(1, <<Meal("dinner_bean_chili", "Bean Chili", 2)>>)>>)

\* Prompt.HasToolResultInContent: some text part is a JSON object whose
\* tool_result is the tool
HasToolResultInContent(msgs, tool) ==
    \E i \in 1..Len(msgs) : \E j \in 1..Len(msgs[i].Content) :
        LET part == msgs[i].Content[j]
            t == TrimSpace(part.Text)
        IN /\ part.Type = "text"
           /\ Len(t) = 3 /\ t[1] = LB /\ t[3] = RB
           /\ "tool_result" \in DOMAIN t[2]
           /\ t[2].tool_result = tool

\* LLMClient.Invoke: the plan of tool calls while no result is there, the
\* final plan once both are, the plan of tool calls again otherwise
MockInvoke(msgs) ==
    IF ~HasToolResultInContent(msgs, "pantry_get") /\ ~HasToolResultInContent(msgs, "recipe_get")
    THEN [res |-> Response(ToolCallsObject, <<>>), err |-> "nil"]
    ELSE IF HasToolResultInContent(msgs, "pantry_get") /\ HasToolResultInContent(msgs, "recipe_get")
    THEN [res |-> Response(Object(MockFinalPlan), <<>>), err |-> "nil"]
    ELSE [res |-> Response(ToolCallsObject, <<>>), err |-> "nil"]

\* the position of the brace that closes the object opened before position
\* end, 0 when there is none
RECURSIVE MatchingBrace(_, _, _)
MatchingBrace(s, end, braceCount) ==
    IF end > Len(s) THEN 0
    ELSE LET count == IF s[end] = LB THEN braceCount + 1
                      ELSE IF s[end] = RB THEN braceCount - 1
                      ELSE braceCount
         IN IF s[end] = RB /\ count = 0 THEN end ELSE MatchingBrace(s, end + 1, count)

\* json.Unmarshal of an object into the probe: its tool calls, none if the
\* object has no such member or does not parse
ProbeToolCalls(jsonObj) ==
    IF Len(jsonObj) = 3 /\ "tool_calls" \in DOMAIN jsonObj[2]
    THEN [i \in 1..Len(jsonObj[2].tool_calls) |->
             [Name |-> jsonObj[2].tool_calls[i].name, Input |-> jsonObj[2].tool_calls[i].input,
              ToolUseID |-> ""]]
    ELSE <<>>

\* the scan of ParseModelOutput: objects with tool calls go to the calls,
\* everything else to the content
RECURSIVE ScanObjects(_)
ScanObjects(s) ==
    IF s = <<>> THEN [content |-> <<>>, calls |-> <<>>]
    ELSE IF Head(s) # LB
    THEN LET rest == ScanObjects(Tail(s))
         IN [content |-> <<Head(s)>> \o rest.content, calls |-> rest.calls]
    ELSE LET end == MatchingBrace(s, 1, 0)
         IN IF end = 0 THEN [content |-> s, calls |-> <<>>]
            ELSE LET jsonObj == SubSeq(s, 1, end)
                     rest == ScanObjects(SubSeq(s, end + 1, Len(s)))
                 IN IF Len(ProbeToolCalls(jsonObj)) > 0
                    THEN [content |-> rest.content, calls |-> ProbeToolCalls(jsonObj) \o rest.calls]
                    ELSE [content |-> jsonObj \o rest.content, calls |-> rest.calls]

\* a ParseModelOutput that extracts the calls and leaves the text as it was
ParseModelOutput_KeepsContent(r) ==
    IF r.Content = <<>> THEN r
    ELSE IF TrimSpace(r.Content) = <<>> THEN Response(<<>>, <<>>)
    ELSE Response(TrimSpace(r.Content), ScanObjects(TrimSpace(r.Content)).calls)

\* Response.ParseModelOutput
ParseModelOutput(r) ==
    IF r.Content = <<>> THEN r
    ELSE IF TrimSpace(r.Content) = <<>> THEN Response(<<>>, <<>>)
    ELSE Response(TrimSpace(ScanObjects(TrimSpace(r.Content)).content),
                  ScanObjects(TrimSpace(r.Content)).calls)

\* the two messages of the nudge
MockNudgeMsgs ==
    <<UserText(Literal("Your last output was a final plan but you did not retrieve the pantry nor the recipe get.")),
      Message("assistant", <<TextPart(<<WS>> \o ToolCallsObject)>>)>>

\* the user message that carries a tool result
MockToolResultMsg(name) == UserText(<<LB, [tool_result |-> name, data |-> [output |-> name]], RB>>)

\* the loop over res.ToolCalls: a tool that is not found or fails ends the run
RECURSIVE MockDispatch(_, _)
MockDispatch(calls, bad) ==
    IF calls = <<>> THEN [ran |-> <<>>, msgs |-> <<>>, err |-> Nil]
    ELSE LET call == Head(calls)
             g == GetTool(call.Name)
         IN IF g.err # "nil"
            THEN [ran |-> <<>>, msgs |-> <<>>, err |-> <<"failed to get tool", call.Name>>]
            ELSE IF g.tool \in bad
            THEN [ran |-> <<g.tool>>, msgs |-> <<>>, err |-> <<"failed to run tool", call.Name>>]
            ELSE LET rest == MockDispatch(Tail(calls), bad)
                 IN [ran |-> <<g.tool>> \o rest.ran,
                     msgs |-> <<MockToolResultMsg(g.tool)>> \o rest.msgs,
                     err |-> rest.err]

MockInit ==
    /\ coordinator = "mock"
    /\ logger \in {"ok", "failing"}
    /\ maxIterations \in 0..MaxIterations
    /\ pantry = PantryCount
    /\ recipes = Catalog
    /\ failing \in SUBSET Registered
    /\ pc = "ready"
    /\ iter = 0
    /\ messages = <<>>
    /\ toolsAlreadyCalled = [n \in ToolNames |-> 0]
    /\ finalOut = <<>>
    /\ res = NoResponse
    /\ invokeErr = "nil"
    /\ branch = "none"
    /\ out = <<>>
    /\ retErr = Nil
    /\ invocations = 0
    /\ dispatched = <<>>
    /\ iterLogs = <<>>
    /\ logReports = 0
    /\ other = Fresh
    /\ fcArg = <<>>
    /\ fcPrev = NoReport
    /\ fcRet = NoReport

\* Run up to the first loop test
MockRunStart ==
    /\ pc = "ready"
    /\ \E task \in MockTasks : messages' = NewPrompt(task)
    /\ finalOut' = <<>>
    /\ iter' = 0
    /\ IF LoopTest(0)
       THEN pc' = "loop" /\ UNCHANGED <<out, retErr>>
       ELSE Return(<<>>, Nil)
    /\ UNCHANGED <<feas, config, toolsAlreadyCalled, res, invokeErr, branch, invocations, dispatched, logs>>

\* one iteration of the loop with the mock model
MockIteration ==
    /\ InLoop
    /\ invocations' = invocations + 1
    /\ \E inv \in {MockInvoke(messages)} : \E r \in {ParseModelOutput(inv.res)} :
       \E d \in {MockDispatch(r.ToolCalls, failing)} :
          IF inv.err # "nil"
          THEN /\ res' = NoResponse /\ invokeErr' = inv.err
               /\ logIteration(inv.err)
               /\ branch' = "invoke_error"
               /\ Return(finalOut, <<"failed to invoke LLM", inv.err>>)
               /\ UNCHANGED <<iter, messages, finalOut, dispatched>>
          ELSE /\ res' = r /\ invokeErr' = "nil"
               /\ IF r.Content # <<>>
                  THEN IF ~(HasToolResultInContent(messages, "pantry_get")
                            /\ HasToolResultInContent(messages, "recipe_get"))
                       THEN /\ messages' = messages \o MockNudgeMsgs
                            /\ logIteration("")
                            /\ branch' = "nudge"
                            /\ NextIteration
                            /\ UNCHANGED <<finalOut, dispatched>>
                       ELSE /\ finalOut' = r.Content
                            /\ logIteration("")
                            /\ branch' = "accept"
                            /\ Return(r.Content, Nil)
                            /\ UNCHANGED <<iter, messages, dispatched>>
                  ELSE IF Len(r.ToolCalls) = 0
                  THEN /\ logIteration("no tool_calls and no final in response")
                       /\ branch' = "empty"
                       /\ Return(finalOut, <<"no tool_calls and no final in response">>)
                       /\ UNCHANGED <<iter, messages, finalOut, dispatched>>
                  ELSE /\ dispatched' = dispatched \o d.ran
                       /\ IF d.err # Nil
                          THEN /\ logIteration("")
                               /\ branch' = "tool_error"
                               /\ Return(finalOut, d.err)
                               /\ UNCHANGED <<iter, messages, finalOut>>
                          ELSE /\ messages' = messages \o d.msgs
                               /\ logIteration("")
                               /\ branch' = "tools"
                               /\ NextIteration
                               /\ UNCHANGED finalOut
    /\ UNCHANGED <<feas, config, toolsAlreadyCalled>>

MockNext ==
    \/ MockRunStart
    \/ MockIteration

MockSpec == MockInit /\ [][MockNext]_vars

\* the loop body always comes to its end: the mock model and the tools return
MockLiveSpec == MockSpec /\ WF_vars(MockNext)

\* --------------------------------------- either coordinator and its logger
\* a coordinator of either kind whose logger fails, or that has none
LoggedInit ==
    /\ coordinator \in {"bedrock", "ollama"}
    /\ logger \in {"failing", "none"}
    /\ maxIterations \in 0..MaxIterations
    /\ pantry = PantryCount
    /\ recipes = Catalog
    /\ failing \in (IF coordinator = "bedrock" THEN {{"pantry_get"}} ELSE FailingSets)
    /\ pc = "ready"
    /\ iter = 0
    /\ messages = <<>>
    /\ toolsAlreadyCalled = [n \in ToolNames |-> 0]
    /\ finalOut = <<>>
    /\ res = NoResponse
    /\ invokeErr = "nil"
    /\ branch = "none"
    /\ out = <<>>
    /\ retErr = Nil
    /\ invocations = 0
    /\ dispatched = <<>>
    /\ iterLogs = <<>>
    /\ logReports = 0
    /\ other = Fresh
    /\ fcArg = <<>>
    /\ fcPrev = NoReport
    /\ fcRet = NoReport

\* a step of bedrock.Coordinator.Run
BedrockStep == coordinator = "bedrock" /\ Next

\* a step of ollama.Coordinator.Run
OllamaStep == coordinator = "ollama" /\ OllamaNext

LoggedNext ==
    \/ BedrockStep
    \/ OllamaStep

LoggedSpec == LoggedInit /\ [][LoggedNext]_vars

\* ------------------------------------------ two calls of Run on one Coordinator
\* a Coordinator on which Run is called twice, with a budget of one iteration each
RunsInit ==
    /\ coordinator = "bedrock"
    /\ logger = "ok"
    /\ maxIterations = 1
    /\ pantry = PantryCount
    /\ recipes = Catalog
    /\ failing \in FailingSets
    /\ pc = "ready"
    /\ iter = 0
    /\ messages = <<>>
    /\ toolsAlreadyCalled = [n \in ToolNames |-> 0]
    /\ finalOut = <<>>
    /\ res = NoResponse
    /\ invokeErr = "nil"
    /\ branch = "none"
    /\ out = <<>>
    /\ retErr = Nil
    /\ invocations = 0
    /\ dispatched = <<>>
    /\ iterLogs = <<>>
    /\ logReports = 0
    /\ other = Fresh
    /\ fcArg = <<>>
    /\ fcPrev = NoReport
    /\ fcRet = NoReport

\* the scheduler with repetition counts kept in the Coordinator: the call
\* that resumes finds the counts of the call that was running
Switch_SharedCounts ==
    /\ other' = locals
    /\ pc' = other[1]
    /\ iter' = other[2]
    /\ messages' = other[3]
    /\ toolsAlreadyCalled' = toolsAlreadyCalled
    /\ finalOut' = other[5]
    /\ res' = other[6]
    /\ invokeErr' = other[7]
    /\ branch' = other[8]
    /\ out' = other[9]
    /\ retErr' = other[10]
    /\ UNCHANGED <<config, logs, invocations, dispatched, fcArg, fcPrev, fcRet>>

\* the scheduler passes from one call of Run to the other, between two
\* iterations: each call has its own prompt, finalOut, toolsAlreadyCalled,
\* iter, res and results, and both share the Coordinator
Switch ==
    /\ other' = locals
    /\ pc' = other[1]
    /\ iter' = other[2]
    /\ messages' = other[3]
    /\ toolsAlreadyCalled' = other[4]
    /\ finalOut' = other[5]
    /\ res' = other[6]
    /\ invokeErr' = other[7]
    /\ branch' = other[8]
    /\ out' = other[9]
    /\ retErr' = other[10]
    /\ UNCHANGED <<config, logs, invocations, dispatched, fcArg, fcPrev, fcRet>>

RunsNext ==
    \/ BedrockStep
    \/ Switch

RunsSpec == RunsInit /\ [][RunsNext]_vars

\* ------------------------------------------- the instrumented coordinators
\* InstrumentedCoordinator.Run of the Bedrock and of the Ollama package. The
\* counters, gauges, histograms and spans it records go to the meter and the
\* tracer, which Run writes to and never reads; they are not part of the state.

\* what llm.Invoke hands back: a response with a nil error, or an error
Answers(responses) ==
    {[res |-> r, err |-> "nil"] : r \in responses}
    \cup {[res |-> NoResponse, err |-> e] : e \in InvokeErrors}

InstrumentedInit ==
    /\ coordinator \in {"bedrock_instrumented", "ollama_instrumented"}
    /\ logger = "ok"
    /\ maxIterations \in 0..MaxIterations
    /\ pantry = PantryCount
    /\ recipes = Catalog
    /\ failing \in (IF coordinator = "bedrock_instrumented" THEN {{"pantry_get"}} ELSE FailingSets)
    /\ pc = "ready"
    /\ iter = 0
    /\ messages = <<>>
    /\ toolsAlreadyCalled = [n \in ToolNames |-> 0]
    /\ finalOut = <<>>
    /\ res = NoResponse
    /\ invokeErr = "nil"
    /\ branch = "none"
    /\ out = <<>>
    /\ retErr = Nil
    /\ invocations = 0
    /\ dispatched = <<>>
    /\ iterLogs = <<>>
    /\ logReports = 0
    /\ other = Fresh
    /\ fcArg = <<>>
    /\ fcPrev = NoReport
    /\ fcRet = NoReport

\* an end of the loop that reports a run without output as an error
InstrumentedContinue_FailsWithoutOutput ==
    /\ iter' = iter + 1
    /\ IF iter + 1 < maxIterations
       THEN pc' = "loop" /\ UNCHANGED <<out, retErr>>
       ELSE IF finalOut = <<>>
       THEN Return(<<>>, <<"max iterations reached without final output">>)
       ELSE Return(finalOut, Nil)

\* `continue` or the end of the loop body of the instrumented Run: iter++ and
\* the loop test; after the loop an empty finalOut sets the span status and
\* the failed-runs counter, and Run returns finalOut, nil
InstrumentedContinue ==
    /\ iter' = iter + 1
    /\ IF iter + 1 < maxIterations
       THEN pc' = "loop" /\ UNCHANGED <<out, retErr>>
       ELSE Return(finalOut, Nil)

\* bedrock InstrumentedCoordinator.Run up to the first loop test
InstrumentedRunStart ==
    /\ coordinator = "bedrock_instrumented"
    /\ pc = "ready"
    /\ \E task \in Tasks : messages' = NewPrompt(task)
    /\ finalOut' = <<>>
    /\ toolsAlreadyCalled' = [n \in ToolNames |-> 0]
    /\ iter' = 0
    /\ IF 0 < maxIterations
       THEN pc' = "loop" /\ UNCHANGED <<out, retErr>>
       ELSE Return(<<>>, Nil)
    /\ UNCHANGED <<feas, config, res, invokeErr, branch, invocations, dispatched, logs>>

\* one iteration of the loop of the bedrock InstrumentedCoordinator.Run
InstrumentedIteration ==
    /\ coordinator = "bedrock_instrumented"
    /\ pc = "loop"
    /\ invocations' = invocations + 1
    /\ \E a \in Answers(Responses) :
          /\ res' = a.res
          /\ invokeErr' = a.err
          /\ IF a.err # "nil"
             THEN /\ logIteration(a.err)
                  /\ branch' = "invoke_error"
                  /\ Return(<<>>, <<"invoke failed", a.err>>)
                  /\ UNCHANGED <<iter, messages, toolsAlreadyCalled, finalOut, dispatched>>
             ELSE IF Len(a.res.ToolCalls) = 0
             THEN \E finalJSON \in {TrimSpace(a.res.Content)} :
                  /\ UNCHANGED <<toolsAlreadyCalled, dispatched>>
                  /\ IF finalJSON = <<>> \/ ~HasPrefixBrace(finalJSON) \/ ~HasSuffixBrace(finalJSON)
                     THEN /\ messages' = Append(messages, SuggestToolsMsg)
                          /\ logIteration("")
                          /\ branch' = "suggest_tools"
                          /\ InstrumentedContinue
                          /\ UNCHANGED finalOut
                     ELSE IF Unmarshal(finalJSON).err # "nil" \/ ~IsValid(Unmarshal(finalJSON).plan)
                     THEN /\ messages' = Append(messages,
                                 InvalidFinalMsg(IF Unmarshal(finalJSON).err = "nil" THEN "<nil>"
                                                 ELSE Unmarshal(finalJSON).err))
                          /\ logIteration("")
                          /\ branch' = "invalid_final_json"
                          /\ InstrumentedContinue
                          /\ UNCHANGED finalOut
                     ELSE \E order \in Orders(RequiredNames(finalJSON, recipes)) :
                          \E f \in {checkFeasibleIn(finalJSON, pantry, recipes, order)} :
                          IF f.err # "nil"
                          THEN /\ messages' = Append(messages, FeasibilityFailedMsg(f.err))
                               /\ logIteration("")
                               /\ branch' = "infeasible_plan"
                               /\ InstrumentedContinue
                               /\ UNCHANGED finalOut
                          ELSE IF ~f.ok
                          THEN /\ messages' = Append(messages, InfeasibleMsg(f.problems))
                               /\ logIteration("infeasible final plan")
                               /\ branch' = "infeasible_plan"
                               /\ InstrumentedContinue
                               /\ UNCHANGED finalOut
                          ELSE /\ finalOut' = finalJSON
                               /\ logIteration("")
                               /\ branch' = "accept"
                               /\ Return(finalJSON, Nil)
                               /\ UNCHANGED <<iter, messages>>
             ELSE \E c \in {CountCalls(a.res.ToolCalls, toolsAlreadyCalled)} :
                  /\ toolsAlreadyCalled' = c.counts
                  /\ UNCHANGED finalOut
                  /\ IF c.hasExcessiveRepetition
                     THEN /\ messages' = Append(messages, RepetitionMsg)
                          /\ logIteration("excessive tool repetition")
                          /\ branch' = "excessive_tool_repetition"
                          /\ InstrumentedContinue
                          /\ UNCHANGED dispatched
                     ELSE \E d \in {Dispatch(a.res.ToolCalls, failing)} :
                          /\ dispatched' = dispatched \o d.ran
                          /\ messages' = messages \o <<AssistantMsg(a.res)>>
                                         \o (IF Len(d.results) > 0
                                             THEN <<NewToolResultMessage(d.results)>> ELSE <<>>)
                          /\ logIteration("")
                          /\ branch' = "tools"
                          /\ InstrumentedContinue
    /\ UNCHANGED <<feas, config>>

\* ollama InstrumentedCoordinator.Run up to the first loop test
OllamaInstrumentedRunStart ==
    /\ coordinator = "ollama_instrumented"
    /\ pc = "ready"
    /\ \E task \in Tasks : messages' = OllamaNewPrompt(task)
    /\ finalOut' = <<>>
    /\ iter' = 0
    /\ IF 0 < maxIterations
       THEN pc' = "loop" /\ UNCHANGED <<out, retErr>>
       ELSE Return(<<>>, Nil)
    /\ UNCHANGED <<feas, config, toolsAlreadyCalled, res, invokeErr, branch, invocations, dispatched,
                   logs>>

\* one iteration of the loop of the ollama InstrumentedCoordinator.Run
OllamaInstrumentedIteration ==
    /\ coordinator = "ollama_instrumented"
    /\ pc = "loop"
    /\ invocations' = invocations + 1
    /\ \E a \in Answers(OllamaResponses) :
          /\ res' = a.res
          /\ invokeErr' = a.err
          /\ IF a.err # "nil"
             THEN /\ logIteration(a.err)
                  /\ branch' = "invoke_error"
                  /\ Return(finalOut, <<"failed to invoke LLM", a.err>>)
                  /\ UNCHANGED <<iter, messages, finalOut, dispatched>>
             ELSE IF Len(a.res.ToolCalls) = 0 /\ a.res.Content # <<>>
             THEN IF ~(HasToolResult(messages, "pantry_get") /\ HasToolResult(messages, "recipe_get"))
                  THEN /\ messages' = Append(messages, OllamaNudgeMsg)
                       /\ logIteration("")
                       /\ branch' = "nudge"
                       /\ InstrumentedContinue
                       /\ UNCHANGED <<finalOut, dispatched>>
                  ELSE /\ finalOut' = a.res.Content
                       /\ logIteration("")
                       /\ branch' = "accept"
                       /\ Return(a.res.Content, Nil)
                       /\ UNCHANGED <<iter, messages, dispatched>>
             ELSE IF Len(a.res.ToolCalls) = 0 /\ a.res.Content = <<>>
             THEN /\ logIteration("no tool_calls and no final content")
                  /\ branch' = "empty"
                  /\ Return(<<>>, <<"no tool_calls and no final content">>)
                  /\ UNCHANGED <<iter, messages, finalOut, dispatched>>
             ELSE \E d \in {OllamaDispatch(dedupeToolCalls(a.res.ToolCalls), failing, finalOut)} :
                  /\ dispatched' = dispatched \o d.ran
                  /\ messages' = messages \o d.msgs
                  /\ logIteration("")
                  /\ UNCHANGED finalOut
                  /\ IF d.err # Nil
                     THEN /\ branch' = "tool_error"
                          /\ Return(d.out, d.err)
                          /\ UNCHANGED iter
                     ELSE /\ branch' = "tools"
                          /\ InstrumentedContinue
    /\ UNCHANGED <<feas, config, toolsAlreadyCalled>>

InstrumentedNext ==
    \/ InstrumentedRunStart
    \/ InstrumentedIteration
    \/ OllamaInstrumentedRunStart
    \/ OllamaInstrumentedIteration

InstrumentedSpec == InstrumentedInit /\ [][InstrumentedNext]_vars

\* ------------------------------------------- the three coordinator variants
\* a coordinator of any of the three packages, with a working logger
VariantsInit ==
    /\ coordinator \in {"bedrock", "ollama", "mock"}
    /\ logger = "ok"
    /\ maxIterations \in 0..MaxIterations
    /\ pantry = PantryCount
    /\ recipes = Catalog
    /\ failing \in (IF coordinator = "bedrock" THEN {{"pantry_get"}} ELSE FailingSets)
    /\ pc = "ready"
    /\ iter = 0
    /\ messages = <<>>
    /\ toolsAlreadyCalled = [n \in ToolNames |-> 0]
    /\ finalOut = <<>>
    /\ res = NoResponse
    /\ invokeErr = "nil"
    /\ branch = "none"
    /\ out = <<>>
    /\ retErr = Nil
    /\ invocations = 0
    /\ dispatched = <<>>
    /\ iterLogs = <<>>
    /\ logReports = 0
    /\ other = Fresh
    /\ fcArg = <<>>
    /\ fcPrev = NoReport
    /\ fcRet = NoReport

\* a step of mock.Coordinator.Run
MockStep == coordinator = "mock" /\ MockNext

VariantsNext ==
    \/ BedrockStep
    \/ OllamaStep
    \/ MockStep

VariantsSpec == VariantsInit /\ [][VariantsNext]_vars

\* ------------------------------------------------------- claim vocabulary
Count(seq, x) == Cardinality({i \in 1..Len(seq) : seq[i] = x})

Last(seq) == seq[Len(seq)]

\* the step is one completed model invocation that returned a response
InvokedOK == invocations' = invocations + 1 /\ invokeErr' = "nil"

BraceDelimited(t) == t # <<>> /\ Head(t) = LB /\ t[Len(t)] = RB

\* text t decodes to a plan that satisfies the plan invariant
WellFormed(t) == Unmarshal(t).err = "nil" /\ IsValid(Unmarshal(t).plan)

\* every iteration order of the checker reports t feasible with no problems
ReportedFeasible(t) ==
    \A order \in Orders(RequiredNames(t, recipes)) :
        LET f == checkFeasibleIn(t, pantry, recipes, order)
        IN f.err = "nil" /\ f.ok /\ f.problems = <<>>

\* response r passes the syntactic, structural and feasibility gates
Acceptable(r) ==
    /\ r.ToolCalls = <<>>
    /\ BraceDelimited(TrimSpace(r.Content))
    /\ WellFormed(TrimSpace(r.Content))
    /\ ReportedFeasible(TrimSpace(r.Content))

\* the corrective object carried by a one-part user message
Corrective(m) == m.Content[1].Text[1].json

IsCorrective(m, error) ==
    /\ m.Role = "user"
    /\ Len(m.Content) = 1
    /\ m.Content[1].Type = "text"
    /\ Len(m.Content[1].Text) = 1
    /\ "json" \in DOMAIN m.Content[1].Text[1]
    /\ "error" \in DOMAIN Corrective(m)
    /\ Corrective(m).error = error

\* exactly one message was appended in this step
AppendedOne == Len(messages') = Len(messages) + 1 /\ SubSeq(messages', 1, Len(messages)) = messages

\* the run goes on: back at the loop head while budget remains, else
\* the normal return with no error
GoesOn ==
    /\ retErr' = Nil
    /\ iter' = iter + 1
    /\ (iter + 1 < maxIterations => pc' = "loop")
    /\ (iter + 1 >= maxIterations => pc' = "returned" /\ out' = <<>>)

\* ---------------------------------------------------------------- claims
\* C1: a non-empty string returned by Run with nil error is the trimmed text
\* of the response of this run's last invocation, which carried no tool
\* calls; it is brace-delimited, parses as a MealPlan with IsValid true, and
\* checkFeasible against the coordinator's snapshot reports it feasible with
\* no problems.
C1_ValidatedOutput ==
    (pc = "returned" /\ out # <<>> /\ retErr = Nil) =>
        /\ invocations > 0 /\ invokeErr = "nil"
        /\ res.ToolCalls = <<>>
        /\ out = TrimSpace(res.Content)
        /\ BraceDelimited(out)
        /\ WellFormed(out)
        /\ ReportedFeasible(out)

C1_Witness ==
    /\ pc = "returned" /\ out # <<>> /\ retErr = Nil
    /\ res.Content # out

\* C2: with a budget N >= 1 the model is invoked at most N times, Run has
\* returned once the N-th invocation is handled, and a run whose last
\* iteration neither failed nor accepted returns ("", nil).
C2_IterationBudget ==
    maxIterations >= 1 =>
        /\ invocations <= maxIterations
        /\ (invocations = maxIterations => pc = "returned")
        /\ (pc = "returned" /\ invokeErr = "nil" /\ ~Acceptable(res) => out = <<>> /\ retErr = Nil)

C2_Witness ==
    /\ maxIterations = 1 /\ pc = "returned" /\ invocations = 1
    /\ res.ToolCalls # <<>> /\ dispatched # <<>>
    /\ out = <<>> /\ retErr = Nil

\* C3: in every step of a run each data-gathering tool has been dispatched
\* at most twice, and the step in which the request count of such a tool
\* passes 2 dispatches nothing and appends the corrective message.
C3_GuardCorrectness ==
    [][\A t \in Registered :
          /\ Count(dispatched', t) <= 2
          /\ (toolsAlreadyCalled[t] <= 2 /\ toolsAlreadyCalled'[t] > 2) =>
                /\ dispatched' = dispatched
                /\ AppendedOne
                /\ IsCorrective(Last(messages'), "excessive_tool_repetition")]_vars

C3_Witness ==
    /\ Count(dispatched, "pantry_get") = 2
    /\ toolsAlreadyCalled["pantry_get"] = 3
    /\ IsCorrective(Last(messages), "excessive_tool_repetition")

\* C4: an iteration in which a request count of pantry_get or recipe_get
\* rises above 2 dispatches no call of its batch, appends exactly one
\* message, the excessive_tool_repetition corrective, and does not end the
\* run: no error, and the loop head is reached again while budget remains.
C4_GuardRedirects ==
    [][(/\ InvokedOK
        /\ res'.ToolCalls # <<>>
        /\ \E t \in Registered :
              toolsAlreadyCalled'[t] > toolsAlreadyCalled[t] /\ toolsAlreadyCalled'[t] > 2)
       => /\ dispatched' = dispatched
          /\ AppendedOne
          /\ IsCorrective(Last(messages'), "excessive_tool_repetition")
          /\ GoesOn]_vars

C4_Witness ==
    /\ \E i \in 1..Len(messages) - 1 : IsCorrective(messages[i], "excessive_tool_repetition")
    /\ dispatched = <<>>
    /\ invocations >= 2

\* C5: a failed model invocation makes Run return at once an error wrapping
\* the invocation error with an empty output; that iteration dispatches no
\* tool and appends no message, and a returned run invokes the model no more.
C5_InvokeErrorFatal ==
    [][/\ (invocations' # invocations /\ invokeErr' # "nil") =>
             /\ pc' = "returned"
             /\ out' = <<>>
             /\ retErr' = <<"invoke failed", invokeErr'>>
             /\ dispatched' = dispatched
             /\ messages' = messages
       /\ (pc = "returned" => invocations' = invocations)]_vars

C5_Witness ==
    /\ pc = "returned" /\ invokeErr # "nil" /\ retErr # Nil
    /\ invocations >= 2 /\ invocations < maxIterations

\* C6: a response with neither tool calls nor any text fails the run with a
\* non-nil error.
C6_EmptyResponseFatal ==
    (invocations > 0 /\ invokeErr = "nil" /\ res.ToolCalls = <<>> /\ res.Content = <<>>) =>
        (pc = "returned" /\ retErr # Nil)

\* C7: a response without tool calls whose trimmed text does not start with
\* '{' or does not end with '}' is not final: the iteration takes the
\* suggest-tools branch (no parse, no feasibility check), returns nothing,
\* raises no error and appends the one user message that suggests
\* pantry_get and recipe_get.
C7_ValidatorGate ==
    [][(/\ InvokedOK
        /\ res'.ToolCalls = <<>>
        /\ ~BraceDelimited(TrimSpace(res'.Content)))
       => /\ branch' = "suggest_tools"
          /\ AppendedOne
          /\ Last(messages') = UserText(Marshal([tool_calls |-> <<"pantry_get", "recipe_get">>]))
          /\ finalOut' = <<>>
          /\ GoesOn]_vars

C7_Witness ==
    /\ branch = "suggest_tools"
    /\ TrimSpace(res.Content) = <<LB, JUNK>>
    /\ pc = "loop"

\* C8: a brace-delimited candidate that does not parse or violates the plan
\* invariant is recoverable: no error, no feasibility check, exactly one
\* corrective message invalid_final_json, and the loop goes on.
C8_SchemaFailureRecoverable ==
    [][(/\ InvokedOK
        /\ res'.ToolCalls = <<>>
        /\ BraceDelimited(TrimSpace(res'.Content))
        /\ ~WellFormed(TrimSpace(res'.Content)))
       => /\ branch' = "invalid_final_json"
          /\ AppendedOne
          /\ IsCorrective(Last(messages'), "invalid_final_json")
          /\ finalOut' = <<>>
          /\ GoesOn]_vars

C8_Witness ==
    /\ branch = "invalid_final_json"
    /\ Unmarshal(TrimSpace(res.Content)).err = "nil"
    /\ pc = "loop"

\* C9: a well-formed candidate that checkFeasible reports infeasible is not
\* returned; exactly one corrective message infeasible_plan is appended, its
\* details are the reported problems, and the loop goes on.
C9_InfeasibleRejected ==
    [][(/\ InvokedOK
        /\ res'.ToolCalls = <<>>
        /\ BraceDelimited(TrimSpace(res'.Content))
        /\ WellFormed(TrimSpace(res'.Content))
        /\ ~ReportedFeasible(TrimSpace(res'.Content)))
       => /\ AppendedOne
          /\ IsCorrective(Last(messages'), "infeasible_plan")
          /\ \E order \in Orders(RequiredNames(TrimSpace(res'.Content), recipes)) :
                Corrective(Last(messages')).details
                    = checkFeasibleIn(TrimSpace(res'.Content), pantry, recipes, order).problems
          /\ Corrective(Last(messages')).details # <<>>
          /\ finalOut' = <<>>
          /\ GoesOn]_vars

C9_Witness ==
    /\ pc = "returned" /\ out # <<>>
    /\ \E i \in 1..Len(messages) : IsCorrective(messages[i], "infeasible_plan")

\* C10: a response that passes all gates is accepted in the iteration that
\* received it (so the first such response is the one returned): Run
\* returns its trimmed text with nil error, appends nothing and dispatches
\* nothing, and a returned run performs no further invocation, dispatch or
\* append.
C10_AcceptanceTerminal ==
    [][/\ (InvokedOK /\ Acceptable(res')) =>
             /\ pc' = "returned"
             /\ out' = TrimSpace(res'.Content)
             /\ retErr' = Nil
             /\ messages' = messages
             /\ dispatched' = dispatched
       /\ (pc = "returned" =>
             UNCHANGED <<invocations, dispatched, messages, out, retErr>>)]_vars

C10_Witness ==
    /\ pc = "returned" /\ branch = "accept"
    /\ invocations >= 2 /\ invocations < maxIterations

\* --------------------------------------------- vocabulary of the feasibility claims
\* checkFeasible has been called directly and has returned
Called == fcRet.err # "not called"

\* the candidate text decodes to a plan
Parsed == Unmarshal(fcArg).err = "nil"

ThePlan == Unmarshal(fcArg).plan

\* the meals of the plan, by <<day, position>>
MealsOf(plan) == UNION {{<<d, m>> : m \in 1..Len(plan.DaysPlanned[d].Meals)} :
                           d \in 1..Len(plan.DaysPlanned)}

MealAt(plan, dm) == plan.DaysPlanned[dm[1]].Meals[dm[2]]

\* the ids of the catalog, surrounding blanks apart
CatalogIds(cat) == {TrimStr(cat[i].id) : i \in 1..Len(cat)} \ {""}

\* the catalog entry an id resolves to: the last recipe written with it
RecipeOf(cat, id) ==
    cat[CHOOSE i \in 1..Len(cat) :
            TrimStr(cat[i].id) = id /\ \A j \in 1..Len(cat) : TrimStr(cat[j].id) = id => j <= i]

\* the pantry entry of an item: the last one written with its name
Stocked(pan, name) == \E i \in 1..Len(pan.ingredients) : ltrim(pan.ingredients[i].name) = name

StockOf(pan, name) ==
    pan.ingredients[CHOOSE i \in 1..Len(pan.ingredients) :
            /\ ltrim(pan.ingredients[i].name) = name
            /\ \A j \in 1..Len(pan.ingredients) : ltrim(pan.ingredients[j].name) = name => j <= i]

\* a need that contributes to demand: named, with a unit and a positive
\* quantity, and not optional
Demanding(n) == ltrim(n.name) # "" /\ TrimStr(n.unit) # "" /\ n.qty > 0 /\ ~n.optional

\* the meals that resolve to a recipe and ask for a positive number of servings
Counted(plan, cat) ==
    {dm \in MealsOf(plan) : MealAt(plan, dm).ID \in CatalogIds(cat) /\ MealAt(plan, dm).Servings > 0}

\* the contributions to demand: <<meal, position of the need in its recipe>>
Contributions(plan, cat) ==
    UNION {{<<dm, k>> : k \in {k \in 1..Len(RecipeOf(cat, MealAt(plan, dm).ID).ingredients) :
                                 Demanding(RecipeOf(cat, MealAt(plan, dm).ID).ingredients[k])}} :
              dm \in Counted(plan, cat)}

NeedOf(plan, cat, c) == RecipeOf(cat, MealAt(plan, c[1]).ID).ingredients[c[2]]

ContributionsTo(plan, cat, name) ==
    {c \in Contributions(plan, cat) : ltrim(NeedOf(plan, cat, c).name) = name}

\* the item names in the plan's aggregate demand
DemandNames(plan, cat) == {ltrim(NeedOf(plan, cat, c).name) : c \in Contributions(plan, cat)}

\* the units in which an item is demanded
DemandUnits(plan, cat, name) ==
    {TrimStr(NeedOf(plan, cat, c).unit) : c \in ContributionsTo(plan, cat, name)}

\* quantity * servings / base servings of one contribution, times den
Share(plan, cat, c, den) ==
    LET r == RecipeOf(cat, MealAt(plan, c[1]).ID)
        base == IF r.servings <= 0 THEN 1 ELSE r.servings
    IN (NeedOf(plan, cat, c).qty * MealAt(plan, c[1]).Servings * den) \div base

RECURSIVE SumShares(_, _, _, _)
SumShares(plan, cat, cs, den) ==
    IF cs = {} THEN 0
    ELSE LET c == CHOOSE x \in cs : TRUE
         IN Share(plan, cat, c, den) + SumShares(plan, cat, cs \ {c}, den)

\* contribution c1 comes before c2 in the plan: by day, meal, then need
Before(c1, c2) ==
    \/ c1[1][1] < c2[1][1]
    \/ c1[1][1] = c2[1][1] /\ c1[1][2] < c2[1][2]
    \/ c1[1] = c2[1] /\ c1[2] < c2[2]

\* the unit an item is demanded in: that of its first contribution
DemandUnit(plan, cat, name) ==
    LET cs == ContributionsTo(plan, cat, name)
        first == CHOOSE c \in cs : \A c2 \in cs : c2 = c \/ Before(c, c2)
    IN TrimStr(NeedOf(plan, cat, first).unit)

\* the aggregate demand of an item, times den: the contributions in its unit
DemandOf(plan, cat, name, den) ==
    SumShares(plan, cat,
              {c \in ContributionsTo(plan, cat, name) :
                   TrimStr(NeedOf(plan, cat, c).unit) = DemandUnit(plan, cat, name)},
              den)

\* the pantry holds the item in the demanded unit and in sufficient quantity
Covered(plan, cat, pan, name) ==
    /\ Stocked(pan, name)
    /\ DemandUnit(plan, cat, name) = TrimStr(StockOf(pan, name).unit)
    /\ StockOf(pan, name).qty * Denominator(cat) >= DemandOf(plan, cat, name, Denominator(cat))

AllCovered == \A name \in DemandNames(ThePlan, recipes) : Covered(ThePlan, recipes, pantry, name)

\* no recipe of the catalog is flagged: positive base servings, and every
\* named required need has a unit and a positive quantity
CatalogClean(cat) ==
    \A i \in 1..Len(cat) : TrimStr(cat[i].id) # "" =>
        /\ cat[i].servings > 0
        /\ \A k \in 1..Len(cat[i].ingredients) :
              LET n == cat[i].ingredients[k]
              IN (ltrim(n.name) # "" /\ ~n.optional) => (TrimStr(n.unit) # "" /\ n.qty > 0)

\* every meal resolves to a recipe and asks for a positive number of servings
MealsResolve(plan, cat) == Counted(plan, cat) = MealsOf(plan)

\* no item is demanded in two units
NoUnitConflict(plan, cat) ==
    \A name \in DemandNames(plan, cat) : Cardinality(DemandUnits(plan, cat, name)) = 1

IsProblem(p, kind, a) == p.kind = kind /\ p.a = a

Reports(kind, a) == \E i \in 1..Len(fcRet.problems) : IsProblem(fcRet.problems[i], kind, a)

\* -------------------------------------------------------- feasibility claims
\* C11 as stated: checkFeasible reports a plan feasible if and only if every
\* item of its aggregate demand has a pantry entry in the same unit with a
\* quantity that is at least the demand.
C11_FeasibleIffCovered ==
    (Called /\ Parsed) => (fcRet.ok <=> AllCovered)

\* C11 amended: checkFeasible reports a plan feasible if and only if
\* days_planned is non-empty, every meal resolves to a catalog recipe with
\* positive servings, no catalog recipe is flagged, no item is demanded in
\* two units, and every item of the aggregate demand has a pantry entry in
\* the same unit with a quantity that is at least the demand.
C11_FeasibilitySoundness ==
    (Called /\ Parsed) =>
        (fcRet.ok <=> /\ Len(ThePlan.DaysPlanned) > 0
                      /\ MealsResolve(ThePlan, recipes)
                      /\ CatalogClean(recipes)
                      /\ NoUnitConflict(ThePlan, recipes)
                      /\ AllCovered)

C11_Witness ==
    /\ Called /\ Parsed /\ fcRet.ok
    /\ Cardinality(DemandNames(ThePlan, recipes)) = 2
    /\ \E i \in 1..Len(recipes) : recipes[i].id # TrimStr(recipes[i].id)

\* the problems are in the byte order of their messages
SortedProblems(ps) == \A i, j \in 1..Len(ps) : i < j => ~KeyLess(ps[j].key, ps[i].key)

\* C12: two calls of checkFeasible on the same plan, pantry and catalog
\* return the same feasible flag and the same problems in the same, sorted
\* order, whatever order the map `required` is ranged over in either call.
C12_Deterministic ==
    (Called /\ fcPrev.err # "not called") =>
        /\ fcRet = fcPrev
        /\ SortedProblems(fcRet.problems)
        /\ \A order \in Orders(RequiredNames(fcArg, recipes)) :
              checkFeasibleIn(fcArg, pantry, recipes, order) = fcRet

C12_Witness ==
    /\ Called /\ fcPrev.err # "not called"
    /\ Cardinality(RequiredNames(fcArg, recipes)) = 2
    /\ Reports("missing ingredient", "egg") /\ Reports("missing ingredient", "milk")

\* C13: a plan whose days_planned is empty is reported infeasible with
\* exactly one problem, "days_planned must be non-empty", and no error,
\* whatever the pantry and the catalog contain.
C13_EmptyDaysInfeasible ==
    (Called /\ Parsed /\ ThePlan.DaysPlanned = <<>>) =>
        /\ ~fcRet.ok
        /\ fcRet.err = "nil"
        /\ Len(fcRet.problems) = 1
        /\ fcRet.problems[1].kind = "days_planned must be non-empty"

C13_Witness ==
    /\ Called /\ Parsed /\ ThePlan.DaysPlanned = <<>> /\ ThePlan.Summary # ""
    /\ ~CatalogClean(recipes)
    /\ pantry.ingredients = <<>>

\* C14: for every item whose aggregate demand has a pantry entry in the same
\* unit, the report has the problem "insufficient <item>", with the needed
\* and the available amounts, and the plan is infeasible, exactly when the
\* pantry quantity is less than the aggregate demand; a demand equal to the
\* available quantity is no problem.
C14_InsufficientExactly ==
    (Called /\ Parsed /\ ThePlan.DaysPlanned # <<>>) =>
        \A name \in DemandNames(ThePlan, recipes) :
            (Stocked(pantry, name)
             /\ TrimStr(StockOf(pantry, name).unit) = DemandUnit(ThePlan, recipes, name)) =>
                LET den == Denominator(recipes)
                    need == DemandOf(ThePlan, recipes, name, den)
                    have == StockOf(pantry, name).qty
                    unit == DemandUnit(ThePlan, recipes, name)
                IN /\ Reports("insufficient", name) <=> have * den < need
                   /\ Reports("insufficient", name) =>
                         /\ ~fcRet.ok
                         /\ \E i \in 1..Len(fcRet.problems) :
                               fcRet.problems[i] = ProbInsufficient(name, need, den, unit, have, unit)

\* 10 servings of a recipe that needs 2 count of egg at base servings 1,
\* against 12 count of egg
C14_Witness ==
    /\ Called /\ Parsed
    /\ ThePlan.DaysPlanned = <<DayPlan(1, <<Meal("r1", "Eggs", 10)>>)>>
    /\ Stocked(pantry, "egg")
    /\ StockOf(pantry, "egg").qty = 12 /\ StockOf(pantry, "egg").unit = "count"
    /\ "egg" \in DemandNames(ThePlan, recipes)
    /\ DemandOf(ThePlan, recipes, "egg", 1) = 20
    /\ Reports("insufficient", "egg")

\* C15: no unit conversion: whenever the pantry's unit for a demanded item
\* differs from the unit of the item's aggregate demand, the report has the
\* problem "unit mismatch: <item>" naming both units, the plan is
\* infeasible and the quantities are not compared, whatever they are.
C15_UnitMismatchHard ==
    (Called /\ Parsed /\ ThePlan.DaysPlanned # <<>>) =>
        \A name \in DemandNames(ThePlan, recipes) :
            (Stocked(pantry, name)
             /\ TrimStr(StockOf(pantry, name).unit) # DemandUnit(ThePlan, recipes, name)) =>
                /\ ~fcRet.ok
                /\ \E i \in 1..Len(fcRet.problems) :
                      fcRet.problems[i] = ProbUnitMismatch(name, DemandUnit(ThePlan, recipes, name),
                                                           TrimStr(StockOf(pantry, name).unit))
                /\ ~Reports("insufficient", name)

\* egg held in dozen, demanded in count, the number held being enough
C15_Witness ==
    /\ Called /\ Parsed
    /\ "egg" \in DemandNames(ThePlan, recipes) /\ Stocked(pantry, "egg")
    /\ StockOf(pantry, "egg").unit = "dozen" /\ DemandUnit(ThePlan, recipes, "egg") = "count"
    /\ StockOf(pantry, "egg").qty * Denominator(recipes)
           >= DemandOf(ThePlan, recipes, "egg", Denominator(recipes))
    /\ Reports("unit mismatch", "egg")

\* the recipe ids the plan references that the catalog does not have
MissingIds(plan, cat) == {MealAt(plan, dm).ID : dm \in MealsOf(plan)} \ CatalogIds(cat)

\* the positions of the report's problems of one kind
ProblemsOfKind(kind) == {i \in 1..Len(fcRet.problems) : fcRet.problems[i].kind = kind}

\* C16: a plan that references a recipe id absent from the catalog is
\* infeasible even when every demanded item is covered; the report has
\* exactly one "unknown recipe id" problem for each distinct missing id,
\* however many meals reference it, and the meals with a missing id add
\* nothing to the aggregate demand, which is that of the other meals.
C16_UnknownRecipeOnce ==
    (Called /\ Parsed /\ ThePlan.DaysPlanned # <<>>) =>
        /\ MissingIds(ThePlan, recipes) # {} => ~fcRet.ok
        /\ \A id \in MissingIds(ThePlan, recipes) :
              Cardinality({i \in ProblemsOfKind("unknown recipe id") : fcRet.problems[i].a = id}) = 1
        /\ Cardinality(ProblemsOfKind("unknown recipe id")) = Cardinality(MissingIds(ThePlan, recipes))
        /\ LET required == Aggregate(ThePlan, recipes).required
           IN /\ DOMAIN required = DemandNames(ThePlan, recipes)
              /\ \A name \in DOMAIN required :
                    required[name].qty = DemandOf(ThePlan, recipes, name, Denominator(recipes))

\* two missing ids, one of them referenced by two meals, next to a meal that fits
C16_Witness ==
    /\ Called /\ Parsed
    /\ Cardinality(MissingIds(ThePlan, recipes)) = 2
    /\ Cardinality({dm \in MealsOf(ThePlan) : MealAt(ThePlan, dm).ID = "r9"}) = 2
    /\ DemandNames(ThePlan, recipes) # {} /\ AllCovered
    /\ ~fcRet.ok /\ Len(fcRet.problems) = 2

\* optional needs to put into a catalog: one that would raise demand, one in
\* another unit, one without unit and quantity, one with no pantry entry,
\* one with a negative quantity
OptionalNeeds == {Need("egg", 9, "count", TRUE), Need("egg", 1, "dozen", TRUE), Need("milk", 0, "", TRUE),
                  Need("salt", 1, "cup", TRUE), Need("milk", -1, "cup", TRUE)}

NotOptional(n) == ~n.optional

\* the catalog with the optional needs of every recipe replaced by `extra`,
\* written before and after the required needs
WithOptionals(cat, extra) ==
    [i \in 1..Len(cat) |->
        [cat[i] EXCEPT !.ingredients = extra \o SelectSeq(@, NotOptional) \o extra]]

\* what checkFeasible can return on the candidate with the catalog cat
ReportsOn(cat) ==
    {checkFeasibleIn(fcArg, pantry, cat, order) : order \in Orders(RequiredNames(fcArg, cat))}

\* C17: optional needs never count and never block: removing the optional
\* needs of the catalog's recipes, or replacing them by any other optional
\* need (one that lacks a unit, has a non-positive quantity, has no pantry
\* entry, or would raise or conflict with the demand), leaves the feasible
\* flag and the problems of checkFeasible unchanged.
C17_OptionalIgnored ==
    Called =>
        /\ ReportsOn(WithOptionals(recipes, <<>>)) = {fcRet}
        /\ \A o \in OptionalNeeds : ReportsOn(WithOptionals(recipes, <<o>>)) = {fcRet}

\* a feasible plan over a recipe with an optional need that has no unit and
\* one whose item the pantry does not hold
C17_Witness ==
    /\ Called /\ Parsed /\ fcRet.ok
    /\ \E dm \in Counted(ThePlan, recipes) :
          LET needs == RecipeOf(recipes, MealAt(ThePlan, dm).ID).ingredients
          IN /\ \E k \in 1..Len(needs) : needs[k].optional /\ needs[k].unit = ""
             /\ \E k \in 1..Len(needs) : needs[k].optional /\ ~Stocked(pantry, ltrim(needs[k].name))
             /\ \E k \in 1..Len(needs) : needs[k].optional /\ needs[k].qty > 0 /\ needs[k].unit # ""
                                          /\ Stocked(pantry, ltrim(needs[k].name))

\* ------------------------------------------------ claims on the tool phase
IsRegistered(n) == n \in Registered

NamesOf(calls) == [i \in 1..Len(calls) |-> calls[i].Name]

\* no data-gathering tool has been requested more than twice
GuardQuiet(counts) == \A t \in Registered : counts[t] <= 2

\* C18: a tool whose Run returns an error does not fail the run: the
\* iteration raises no error, every registered call of the batch is still
\* dispatched in request order, the tool result message has one result per
\* call, an error payload exactly for the calls that failed or were not
\* found, and the loop goes on to the next invocation.
C18_ToolErrorEmbedded ==
    [][(/\ InvokedOK
        /\ res'.ToolCalls # <<>>
        /\ GuardQuiet(toolsAlreadyCalled')
        /\ \E i \in 1..Len(res'.ToolCalls) : res'.ToolCalls[i].Name \in failing)
       => /\ GoesOn
          /\ dispatched' = dispatched \o SelectSeq(NamesOf(res'.ToolCalls), IsRegistered)
          /\ Len(messages') = Len(messages) + 2
          /\ LET results == Last(messages').Content
             IN /\ Len(results) = Len(res'.ToolCalls)
                /\ \A i \in 1..Len(results) :
                      /\ results[i].Type = "tool_result"
                      /\ results[i].ToolUseID = res'.ToolCalls[i].ToolUseID
                      /\ "error" \in DOMAIN results[i].Data
                            <=> (res'.ToolCalls[i].Name \in failing
                                 \/ res'.ToolCalls[i].Name \notin Registered)]_vars

\* pantry_get fails, recipe_get after it in the same batch still runs
C18_Witness ==
    /\ branch = "tools" /\ pc = "loop" /\ retErr = Nil
    /\ "pantry_get" \in failing
    /\ NamesOf(res.ToolCalls) = <<"pantry_get", "recipe_get">>
    /\ dispatched = <<"pantry_get", "recipe_get">>
    /\ "error" \in DOMAIN Last(messages).Content[1].Data
    /\ "output" \in DOMAIN Last(messages).Content[2].Data

\* C19: a response that requests a tool name the provider does not have
\* makes Run return a non-nil error.
C19_LookupFailureFatal ==
    (/\ invocations > 0 /\ invokeErr = "nil"
     /\ GuardQuiet(toolsAlreadyCalled)
     /\ \E i \in 1..Len(res.ToolCalls) : res.ToolCalls[i].Name \notin Registered)
    => (pc = "returned" /\ retErr # Nil)

\* ------------------------------------------- claims on the Ollama coordinator
\* the position of the first requested call that is not found or fails
FirstBad(calls) ==
    CHOOSE b \in 1..Len(calls) :
        /\ calls[b].Name \notin Registered \/ calls[b].Name \in failing
        /\ \A i \in 1..(b - 1) : calls[i].Name \in Registered /\ calls[i].Name \notin failing

\* the tools run in this step
NewlyDispatched == SubSeq(dispatched', Len(dispatched) + 1, Len(dispatched'))

\* C20: in the Ollama coordinator a failed invocation, a response with
\* neither tool calls nor content, a requested tool that is not found and a
\* tool whose Run fails each make Run return at once a non-nil error with an
\* empty output: no call after the offending one is dispatched, a tool that
\* is not found is never run, and a returned run invokes and dispatches no more.
C20_OllamaFatal ==
    [][/\ (invocations' = invocations + 1 /\ invokeErr' # "nil") =>
             /\ pc' = "returned" /\ retErr' # Nil /\ out' = <<>>
             /\ dispatched' = dispatched
       /\ (InvokedOK /\ res'.ToolCalls = <<>> /\ res'.Content = <<>>) =>
             /\ pc' = "returned" /\ retErr' # Nil /\ out' = <<>>
             /\ dispatched' = dispatched
       /\ (/\ InvokedOK
           /\ \E i \in 1..Len(res'.ToolCalls) :
                 res'.ToolCalls[i].Name \notin Registered \/ res'.ToolCalls[i].Name \in failing) =>
             /\ pc' = "returned" /\ retErr' # Nil /\ out' = <<>>
             /\ SubSeq(dispatched', 1, Len(dispatched)) = dispatched
             /\ Len(NewlyDispatched) <= FirstBad(res'.ToolCalls)
             /\ \A n \in Range(NewlyDispatched) :
                   /\ n \in Registered
                   /\ \E i \in 1..FirstBad(res'.ToolCalls) : res'.ToolCalls[i].Name = n
       /\ (pc = "returned" => UNCHANGED <<invocations, dispatched, out, retErr>>)]_vars

\* recipe_get runs, pantry_get fails after it: Run returns the error in a
\* later iteration of a run that had dispatched before
C20_Witness ==
    /\ pc = "returned" /\ retErr # Nil /\ out = <<>>
    /\ branch = "tool_error"
    /\ "pantry_get" \in failing /\ "recipe_get" \notin failing
    /\ invocations >= 2 /\ invocations < maxIterations
    /\ Len(dispatched) >= 3
    /\ Last(dispatched) = "pantry_get"

\* ----------------------------------------------- claims on the iteration log
\* C21: with a logger configured, every iteration of the Bedrock or the
\* Ollama loop hands exactly one record to LogIteration, whatever way the
\* iteration ends; the record carries the index of the iteration, the
\* indices are 1, 2, ... in order, and every invocation made so far has its
\* record before the next one starts.
C21_LoggedOncePerIteration ==
    [][logger # "none" =>
         /\ pc = "loop" => /\ Len(iterLogs') = Len(iterLogs) + 1
                           /\ SubSeq(iterLogs', 1, Len(iterLogs)) = iterLogs
                           /\ Last(iterLogs').Iteration = iter + 1
         /\ pc # "loop" => iterLogs' = iterLogs
         /\ Len(iterLogs') = invocations'
         /\ \A k \in 1..Len(iterLogs') : iterLogs'[k].Iteration = k]_vars

\* three iterations were logged, the last of them ended the run with an error
C21_Witness ==
    /\ logger = "failing"
    /\ pc = "returned"
    /\ retErr # Nil
    /\ invocations = 3
    /\ Len(iterLogs) = 3
    /\ iterLogs[3].Error # ""
    /\ iterLogs[1].Error = ""

\* --------------------------------------------- vocabulary of the logger claims
\* the number of requests of tool t among the first k calls
Requests(calls, k, t) == Cardinality({i \in 1..k : calls[i].Name = t})

\* the positions at which a request count of a data-gathering tool rises above 2
TripsAt(counts, calls) ==
    {k \in 1..Len(calls) :
        /\ calls[k].Name \in Registered
        /\ counts[calls[k].Name] + Requests(calls, k, calls[k].Name) > 2}

\* the calls the repetition guard counts: up to the first that trips it
CountedUpTo(counts, calls) ==
    IF TripsAt(counts, calls) = {} THEN Len(calls)
    ELSE CHOOSE k \in TripsAt(counts, calls) : \A j \in TripsAt(counts, calls) : k <= j

\* Run returned o with a non-nil error in this step
Fails(o) == pc' = "returned" /\ out' = o /\ retErr' # Nil

\* what one iteration of the Bedrock loop does to the run, told from the
\* state before it and the model's answer alone
BedrockContract ==
    LET t == TrimSpace(res'.Content)
        calls == res'.ToolCalls
        k == CountedUpTo(toolsAlreadyCalled, calls)
    IN /\ invocations' = invocations + 1
       /\ invokeErr' # "nil" =>
             Fails(<<>>) /\ UNCHANGED <<messages, dispatched, toolsAlreadyCalled>>
       /\ (invokeErr' = "nil" /\ calls = <<>>) =>
             /\ UNCHANGED <<dispatched, toolsAlreadyCalled>>
             /\ IF Acceptable(res')
                THEN /\ pc' = "returned" /\ out' = t /\ retErr' = Nil
                     /\ messages' = messages
                ELSE /\ AppendedOne
                     /\ GoesOn
                     /\ ~BraceDelimited(t) =>
                           Last(messages') = UserText(Marshal([tool_calls |-> <<"pantry_get", "recipe_get">>]))
                     /\ (BraceDelimited(t) /\ ~WellFormed(t)) =>
                           IsCorrective(Last(messages'), "invalid_final_json")
                     /\ (BraceDelimited(t) /\ WellFormed(t)) =>
                           IsCorrective(Last(messages'), "infeasible_plan")
       /\ (invokeErr' = "nil" /\ calls # <<>>) =>
             /\ \A n \in ToolNames :
                   toolsAlreadyCalled'[n] = toolsAlreadyCalled[n] + Requests(calls, k, n)
             /\ GoesOn
             /\ IF TripsAt(toolsAlreadyCalled, calls) # {}
                THEN /\ dispatched' = dispatched
                     /\ AppendedOne
                     /\ IsCorrective(Last(messages'), "excessive_tool_repetition")
                ELSE /\ dispatched' = dispatched \o SelectSeq(NamesOf(calls), IsRegistered)
                     /\ Len(messages') = Len(messages) + 2
                     /\ SubSeq(messages', 1, Len(messages)) = messages
                     /\ messages'[Len(messages) + 1].Role = "assistant"
                     /\ Len(Last(messages').Content) = Len(calls)

\* the positions of the calls that are the first of their name and arguments
KeptAt(calls) == {i \in 1..Len(calls) : \A j \in 1..(i - 1) : calls[j] # calls[i]}

\* the k-th smallest member of a set of numbers
Nth(S, k) == CHOOSE x \in S : Cardinality({y \in S : y < x}) = k - 1

\* the names of the calls the Ollama coordinator keeps, in request order
KeptNames(calls) == [k \in 1..Cardinality(KeptAt(calls)) |-> calls[Nth(KeptAt(calls), k)].Name]

IsToolResult(m, tool) == m.Role = "tool" /\ m.Name = tool

\* the conversation holds a tool result of both data-gathering tools
HasBothResults(msgs) ==
    \A tool \in Registered : \E i \in 1..Len(msgs) : IsToolResult(msgs[i], tool)

\* what one iteration of the Ollama loop does to the run
OllamaContract ==
    LET calls == res'.ToolCalls
        kept == KeptNames(calls)
        sound == \A i \in 1..Len(calls) : calls[i].Name \in Registered /\ calls[i].Name \notin failing
    IN /\ invocations' = invocations + 1
       /\ invokeErr' # "nil" => Fails(<<>>) /\ UNCHANGED <<messages, dispatched>>
       /\ (invokeErr' = "nil" /\ calls = <<>> /\ res'.Content = <<>>) =>
             Fails(<<>>) /\ UNCHANGED <<messages, dispatched>>
       /\ (invokeErr' = "nil" /\ calls = <<>> /\ res'.Content # <<>>) =>
             /\ dispatched' = dispatched
             /\ IF HasBothResults(messages)
                THEN /\ pc' = "returned" /\ out' = res'.Content /\ retErr' = Nil
                     /\ messages' = messages
                ELSE /\ AppendedOne
                     /\ Last(messages').Role = "user"
                     /\ GoesOn
       /\ (invokeErr' = "nil" /\ calls # <<>> /\ ~sound) => Fails(<<>>)
       /\ (invokeErr' = "nil" /\ calls # <<>> /\ sound) =>
             /\ GoesOn
             /\ dispatched' = dispatched \o kept
             /\ Len(messages') = Len(messages) + Len(kept)
             /\ SubSeq(messages', 1, Len(messages)) = messages
             /\ \A i \in 1..Len(kept) : IsToolResult(messages'[Len(messages) + i], kept[i])

\* C22: an iteration whose LogIteration returned an error reports the
\* failure once and does to the run exactly what the loop body prescribes
\* from the model's answer: the returned output and error, the conversation,
\* the invocation and the dispatches are those of the iteration itself, so
\* the logging error neither aborts nor alters the run.
C22_LoggerFailureHarmless ==
    [][logReports' # logReports =>
         /\ logReports' = logReports + 1
         /\ pc = "loop"
         /\ coordinator = "bedrock" => BedrockContract
         /\ coordinator = "ollama" => OllamaContract]_vars

\* every LogIteration of a run failed, and the run went through three
\* iterations and returned an accepted plan
C22_Witness ==
    /\ logger = "failing"
    /\ logReports = 3
    /\ invocations = 3
    /\ pc = "returned" /\ retErr = Nil /\ out # <<>>
    /\ dispatched # <<>>

\* ------------------------------------- claims on the Bedrock tool phase
IsToolUse(part) == part.Type = "tool_use"

IsText(part) == part.Type = "text"

\* C23: a Bedrock tool phase that passes the repetition guard runs the
\* registered calls of the batch one after the other in request order and
\* appends exactly two messages: an assistant message whose tool_use parts
\* are the requested calls in request order (id, name and input), then one
\* result message with one tool_result per requested call, in the same
\* order and with the ToolUseID and the name of its request.
C23_ToolPhaseRecorded ==
    [][(/\ InvokedOK
        /\ res'.ToolCalls # <<>>
        /\ TripsAt(toolsAlreadyCalled, res'.ToolCalls) = {})
       => LET calls == res'.ToolCalls
              asked == messages'[Len(messages) + 1]
              uses == SelectSeq(asked.Content, IsToolUse)
              results == messages'[Len(messages) + 2].Content
          IN /\ dispatched' = dispatched \o SelectSeq(NamesOf(calls), IsRegistered)
             /\ Len(messages') = Len(messages) + 2
             /\ SubSeq(messages', 1, Len(messages)) = messages
             /\ asked.Role = "assistant"
             /\ Len(uses) = Len(calls)
             /\ Len(asked.Content) = Len(calls) + (IF res'.Content # <<>> THEN 1 ELSE 0)
             /\ \A i \in 1..Len(calls) :
                   /\ uses[i].ToolUseID = calls[i].ToolUseID
                   /\ uses[i].ToolName = calls[i].Name
                   /\ uses[i].Data = calls[i].Input
             /\ Len(results) = Len(calls)
             /\ \A i \in 1..Len(calls) :
                   /\ results[i].Type = "tool_result"
                   /\ results[i].ToolUseID = calls[i].ToolUseID
                   /\ results[i].ToolName = calls[i].Name]_vars

\* a batch of two different tools, sent along with text, was dispatched
C23_Witness ==
    /\ branch = "tools" /\ pc = "loop"
    /\ failing = {}
    /\ res.Content # <<>>
    /\ NamesOf(res.ToolCalls) = <<"pantry_get", "recipe_get">>
    /\ dispatched = <<"pantry_get", "recipe_get">>
    /\ Len(messages) = 4
    /\ Last(messages).Content[1].ToolUseID # Last(messages).Content[2].ToolUseID

\* C24: a response that carries tool calls and text goes the way of the tool
\* calls: the text is not a final candidate in that iteration (nothing is
\* accepted or returned as output, no error is raised, none of the
\* correctives for a candidate is appended); past the guard the batch is
\* dispatched and the text is recorded as it came, as the first part of the
\* assistant message; a tripped guard appends its own corrective instead.
C24_ToolCallsAuthoritative ==
    [][(/\ InvokedOK
        /\ res'.ToolCalls # <<>>
        /\ res'.Content # <<>>)
       => /\ finalOut' = <<>>
          /\ out' = <<>>
          /\ GoesOn
          /\ IF TripsAt(toolsAlreadyCalled, res'.ToolCalls) # {}
             THEN /\ AppendedOne
                  /\ IsCorrective(Last(messages'), "excessive_tool_repetition")
                  /\ dispatched' = dispatched
             ELSE /\ Len(messages') = Len(messages) + 2
                  /\ messages'[Len(messages) + 1].Role = "assistant"
                  /\ IsText(messages'[Len(messages) + 1].Content[1])
                  /\ messages'[Len(messages) + 1].Content[1].Text = res'.Content
                  /\ \A i \in 1..Len(Last(messages').Content) :
                        Last(messages').Content[i].Type = "tool_result"
                  /\ dispatched' = dispatched \o SelectSeq(NamesOf(res'.ToolCalls), IsRegistered)]_vars

\* the text that came with the tool calls would have passed every gate on
\* its own; the batch was dispatched and the run goes on
C24_Witness ==
    /\ pc = "loop" /\ out = <<>> /\ retErr = Nil
    /\ invocations >= 1 /\ invokeErr = "nil"
    /\ res.ToolCalls # <<>>
    /\ Acceptable(Response(res.Content, <<>>))
    /\ Len(dispatched) >= Len(res.ToolCalls)
    /\ Last(messages).Content[1].Type = "tool_result"

\* ------------------------------------------- claims on the conversation
\* C25: in a run of the Bedrock or the Ollama coordinator the conversation
\* only grows at its end, and an iteration after which the model is invoked
\* again has appended at least one message: the conversation sent with one
\* invocation is a strict prefix of the one sent with the next.
C25_ConversationGrows ==
    [][pc = "loop" =>
         /\ Len(messages') >= Len(messages)
         /\ SubSeq(messages', 1, Len(messages)) = messages
         /\ pc' = "loop" => /\ invocations' = invocations + 1
                            /\ Len(messages') > Len(messages)]_vars

\* the Ollama model is about to be invoked a third time, with a conversation
\* that holds tool results and a nudge after the two prompt messages
C25_Witness ==
    /\ coordinator = "ollama"
    /\ pc = "loop"
    /\ invocations = 2
    /\ Len(messages) >= 4
    /\ \E i \in 1..Len(messages) : messages[i].Role = "tool"
    /\ Last(messages).Role = "user"

Chars(summary) ==
    CASE summary = LongSummary -> 401
      [] summary = "" -> 0
      [] summary = "other" -> 5
      [] OTHER -> 4

\* C27: a plan that Run accepts and returns has a summary of at most 400
\* characters and no day number below 1.
C27_AcceptedMatchesShape ==
    (pc = "returned" /\ retErr = Nil /\ out # <<>>) =>
        LET plan == Unmarshal(out).plan
        IN /\ Chars(plan.Summary) <= 400
           /\ \A d \in 1..Len(plan.DaysPlanned) : plan.DaysPlanned[d].Day >= 1

\* the plan invariant: at least one day, at least one meal a day, and every
\* meal with an id, a name and a positive number of servings
PlanInvariant(plan) ==
    /\ plan.DaysPlanned # <<>>
    /\ \A d \in 1..Len(plan.DaysPlanned) :
          /\ plan.DaysPlanned[d].Meals # <<>>
          /\ \A m \in 1..Len(plan.DaysPlanned[d].Meals) :
                /\ plan.DaysPlanned[d].Meals[m].ID # ""
                /\ plan.DaysPlanned[d].Meals[m].Name # ""
                /\ plan.DaysPlanned[d].Meals[m].Servings > 0

\* the latest answer is a candidate: text without tool calls that parses
Candidate ==
    /\ invocations >= 1 /\ invokeErr = "nil"
    /\ res.ToolCalls = <<>>
    /\ BraceDelimited(TrimSpace(res.Content))
    /\ Unmarshal(res.Content).err = "nil"

\* C28: Run never returns a plan that violates the plan invariant: an
\* answer whose days_planned is empty, or that has a day without meals or a
\* meal with an empty id, an empty name or servings <= 0, is not the output,
\* and whatever Run returns as a plan satisfies the invariant.
C28_InvalidNeverAccepted ==
    /\ (Candidate /\ ~PlanInvariant(Unmarshal(res.Content).plan)) => out = <<>>
    /\ (pc = "returned" /\ out # <<>>) =>
          /\ Unmarshal(out).err = "nil"
          /\ PlanInvariant(Unmarshal(out).plan)

\* a day without meals, which checkFeasible alone would have let through,
\* was proposed and the run goes on without an output
C28_Witness ==
    /\ Candidate
    /\ Unmarshal(res.Content).plan.DaysPlanned # <<>>
    /\ \E d \in 1..Len(Unmarshal(res.Content).plan.DaysPlanned) :
          Unmarshal(res.Content).plan.DaysPlanned[d].Meals = <<>>
    /\ ReportedFeasible(TrimSpace(res.Content))
    /\ pc = "loop" /\ out = <<>> /\ retErr = Nil
    /\ IsCorrective(Last(messages), "invalid_final_json")

\* ----------------------------------------- claims on the mock coordinator
\* C29: with the mock model and tools that work, Run of the mock
\* coordinator returns, with a nil error; the first iteration dispatches
\* pantry_get and recipe_get; with a budget of 2 or more the second
\* iteration is the last and the output is the text of a MealPlan for which
\* IsValid holds; with a budget of 1 the output is empty.
C29_MockConverges ==
    /\ [](failing = {} =>
            /\ invocations >= 1 => dispatched = <<"pantry_get", "recipe_get">>
            /\ invocations <= 2
            /\ pc = "returned" =>
                  /\ retErr = Nil
                  /\ maxIterations >= 2 =>
                        /\ invocations = 2
                        /\ dispatched = <<"pantry_get", "recipe_get">>
                        /\ out # <<>>
                        /\ Unmarshal(out).err = "nil"
                        /\ IsValid(Unmarshal(out).plan)
                  /\ maxIterations = 1 =>
                        /\ invocations = 1
                        /\ out = <<>>)
    /\ [](failing = {} => <>(pc = "returned"))

\* a run with budget to spare returned the final plan after two invocations
C29_Witness ==
    /\ coordinator = "mock"
    /\ failing = {}
    /\ pc = "returned" /\ retErr = Nil
    /\ maxIterations > 2
    /\ invocations = 2
    /\ out = Object(MockFinalPlan)
    /\ Len(messages) = 4

\* ------------------------------------- claims on the Ollama final gate

\* the tool ran in this run and did not fail
RanWell(tool) == tool \notin failing /\ \E i \in 1..Len(dispatched) : dispatched[i] = tool

\* C30: when the Ollama model answers with text and no tool calls, the text
\* is returned unchanged with nil error if the conversation holds a role
\* "tool" message of pantry_get and one of recipe_get, and otherwise one
\* user message is appended, no tool runs and the loop goes on; so a run
\* that returned a non-empty output holds both tool results and ran both
\* tools without failure.
C30_FinalNeedsBothResults ==
    /\ [][(InvokedOK /\ res'.ToolCalls = <<>> /\ res'.Content # <<>>) =>
            /\ dispatched' = dispatched
            /\ HasBothResults(messages) =>
                  /\ pc' = "returned" /\ retErr' = Nil
                  /\ out' = res'.Content
                  /\ messages' = messages
            /\ ~HasBothResults(messages) =>
                  /\ AppendedOne
                  /\ Last(messages').Role = "user"
                  /\ GoesOn]_vars
    /\ []((pc = "returned" /\ out # <<>>) =>
            /\ HasBothResults(messages)
            /\ \A tool \in Registered : RanWell(tool))

\* a run that was nudged for answering early, then ran both tools, and whose
\* next text, a single blank, was returned as it is
C30_Witness ==
    /\ coordinator = "ollama"
    /\ pc = "returned" /\ retErr = Nil
    /\ out = <<WS>>
    /\ \E i \in 1..Len(messages) : messages[i].Role = "user" /\ i > 2
    /\ HasBothResults(messages)
    /\ invocations = 3

\* ------------------------------------- claims on the Ollama deduplication

\* the calls at the kept positions, in request order
Kept(calls) == [k \in 1..Cardinality(KeptAt(calls)) |-> calls[Nth(KeptAt(calls), k)]]

IsPrefix(p, q) == Len(p) <= Len(q) /\ SubSeq(q, 1, Len(p)) = p

\* C31: for the tool calls of every Ollama answer, dedupeToolCalls returns
\* the calls that have no equal (name, arguments) call before them, in
\* request order, so calls of one tool with different arguments all stay;
\* deduplicating the result again changes nothing; and the tools the
\* iteration dispatches are the names of a prefix of that result, all of it
\* when every kept call names a registered tool that does not fail.
C31_DedupeKeepsFirst ==
    [][(InvokedOK /\ coordinator = "ollama" /\ res'.ToolCalls # <<>>) =>
          LET calls == res'.ToolCalls
              kept == dedupeToolCalls(calls)
              ran == SubSeq(dispatched', Len(dispatched) + 1, Len(dispatched'))
          IN /\ kept = Kept(calls)
             /\ dedupeToolCalls(kept) = kept
             /\ IsPrefix(dispatched, dispatched')
             /\ IsPrefix(ran, KeptNames(calls))
             /\ (\A i \in 1..Len(calls) : calls[i].Name \in Registered \ failing) =>
                    ran = KeptNames(calls)]_vars

\* the answer asked for recipe_get twice with the same arguments and then for
\* pantry_get, and each tool ran once
C31_Witness ==
    /\ coordinator = "ollama"
    /\ invokeErr = "nil"
    /\ res.ToolCalls = <<ToolCall("recipe_get", 0), ToolCall("recipe_get", 0), ToolCall("pantry_get", 0)>>
    /\ dispatched = <<"recipe_get", "pantry_get">>
    /\ Len(messages) = 4

\* ------------------------------------- claims on the instrumented coordinators

\* C32: every step of an instrumented Run is a step of the plain Run of the
\* same package from the same state: with the same answer of the model and
\* the same tools it leaves the same conversation, counts, dispatches,
\* iteration log, output and error.
C32_InstrumentedRefinesPlain ==
    [][/\ coordinator = "bedrock_instrumented" => Next
       /\ coordinator = "ollama_instrumented" => OllamaNext]_vars

\* an instrumented Bedrock run that ran a tool phase, was refused a plan and
\* returned an accepted one
C32_Witness ==
    /\ coordinator = "bedrock_instrumented"
    /\ pc = "returned" /\ retErr = Nil /\ out # <<>>
    /\ dispatched # <<>>
    /\ Len(iterLogs) = 3
    /\ \E i \in 1..Len(iterLogs) : iterLogs[i].Error = "infeasible final plan"

\* ------------------------------------- claims on the aggregation

\* the report's problems of one kind about one item or id
ReportsOf(kind, a) == {i \in 1..Len(fcRet.problems) : IsProblem(fcRet.problems[i], kind, a)}

HasProblem(p) == \E i \in 1..Len(fcRet.problems) : fcRet.problems[i] = p

\* the contributions to an item in another unit than its first one
Conflicting(plan, cat, name) ==
    {c \in ContributionsTo(plan, cat, name) :
        TrimStr(NeedOf(plan, cat, c).unit) # DemandUnit(plan, cat, name)}

\* the unit of the first of them
ConflictUnit(plan, cat, name) ==
    LET cs == Conflicting(plan, cat, name)
        first == CHOOSE c \in cs : \A c2 \in cs : c2 = c \/ Before(c, c2)
    IN TrimStr(NeedOf(plan, cat, first).unit)

\* C33: for every item that the plan demands in more than one unit, the
\* report has exactly one "unit conflict" problem, which names the first unit
\* and the unit of the first conflicting contribution, however many
\* contributions conflict; and the comparison with the pantry is made on the
\* first unit and on the sum of the contributions in that unit alone, so the
\* conflicting contributions are neither converted nor counted.
C33_UnitConflictOnce ==
    (Called /\ Parsed /\ ThePlan.DaysPlanned # <<>>) =>
        \A name \in DemandNames(ThePlan, recipes) :
            LET den == Denominator(recipes)
                unit == DemandUnit(ThePlan, recipes, name)
                need == DemandOf(ThePlan, recipes, name, den)
            IN /\ Conflicting(ThePlan, recipes, name) = {} => ReportsOf("unit conflict", name) = {}
               /\ Conflicting(ThePlan, recipes, name) # {} =>
                     /\ ~fcRet.ok
                     /\ Cardinality(ReportsOf("unit conflict", name)) = 1
                     /\ HasProblem(ProbUnitConflict(name, unit, ConflictUnit(ThePlan, recipes, name)))
                     /\ IF ~Stocked(pantry, name)
                        THEN HasProblem(ProbMissing(name, need, den, unit))
                        ELSE LET have == StockOf(pantry, name)
                             IN IF TrimStr(have.unit) # unit
                                THEN HasProblem(ProbUnitMismatch(name, unit, TrimStr(have.unit)))
                                ELSE /\ ReportsOf("unit mismatch", name) = {}
                                     /\ ReportsOf("missing ingredient", name) = {}
                                     /\ have.qty * den < need <=>
                                           HasProblem(ProbInsufficient(name, need, den, unit, have.qty,
                                                                       TrimStr(have.unit)))

\* egg is asked for in count, twice in dozen and in count again: one unit
\* conflict, and the 4 count in the pantry cover the 4 count of demand
C33_Witness ==
    /\ Called /\ Parsed
    /\ Cardinality(Conflicting(ThePlan, recipes, "egg")) = 2
    /\ DemandUnit(ThePlan, recipes, "egg") = "count"
    /\ DemandOf(ThePlan, recipes, "egg", 1) = 4
    /\ Cardinality(ReportsOf("unit conflict", "egg")) = 1
    /\ Stocked(pantry, "egg") /\ StockOf(pantry, "egg").qty = 4
    /\ ReportsOf("insufficient", "egg") = {}

\* the sum, times den, of quantity * servings / base servings over every
\* contribution to an item, a recipe counted each time a meal refers to it
TotalDemand(plan, cat, name, den) == SumShares(plan, cat, ContributionsTo(plan, cat, name), den)

\* every single meal's contribution to the item fits the pantry quantity
EachMealFits(plan, cat, pan, name, den) ==
    \A c \in ContributionsTo(plan, cat, name) : Share(plan, cat, c, den) <= StockOf(pan, name).qty * den

\* C34: for every item that is demanded in one unit and stocked in that
\* unit, the plan is reported insufficient in the item, and so infeasible,
\* exactly when the pantry quantity is below the total over all meals of all
\* days of quantity * servings / base servings, and the problem carries that
\* total; this is so also when every single meal fits the pantry quantity.
C34_AggregateDemand ==
    (Called /\ Parsed /\ ThePlan.DaysPlanned # <<>>) =>
        \A name \in DemandNames(ThePlan, recipes) :
            (/\ Conflicting(ThePlan, recipes, name) = {}
             /\ Stocked(pantry, name)
             /\ TrimStr(StockOf(pantry, name).unit) = DemandUnit(ThePlan, recipes, name)) =>
                LET den == Denominator(recipes)
                    total == TotalDemand(ThePlan, recipes, name, den)
                    have == StockOf(pantry, name).qty
                    unit == DemandUnit(ThePlan, recipes, name)
                IN /\ have * den >= total => ReportsOf("insufficient", name) = {}
                   /\ have * den < total =>
                         /\ ~fcRet.ok
                         /\ HasProblem(ProbInsufficient(name, total, den, unit, have, unit))
                         /\ Cardinality(ReportsOf("insufficient", name)) = 1

\* 2 servings on day 1 and 1 serving on day 2 of a recipe that needs 2 count
\* of egg a serving, against 4 count of egg: each meal fits, the total of 6
\* does not
C34_Witness ==
    /\ Called /\ Parsed
    /\ Len(ThePlan.DaysPlanned) = 2
    /\ Stocked(pantry, "egg") /\ StockOf(pantry, "egg").qty = 4
    /\ "egg" \in DemandNames(ThePlan, recipes)
    /\ Conflicting(ThePlan, recipes, "egg") = {}
    /\ EachMealFits(ThePlan, recipes, pantry, "egg", 1)
    /\ TotalDemand(ThePlan, recipes, "egg", 1) = 6
    /\ ~fcRet.ok
    /\ fcRet.problems = <<ProbInsufficient("egg", 6 * Denominator(recipes), Denominator(recipes),
                                           "count", 4, "count")>>

\* ------------------------------------- claims on the catalog index

\* the catalog entries with an id whose base servings are absent (read as 0)
\* or not positive
BadBase(cat) == {i \in 1..Len(cat) : TrimStr(cat[i].id) # "" /\ cat[i].servings <= 0}

\* the contributions of the meals that resolve to such an entry
FromBadBase(plan, cat, name) ==
    {c \in ContributionsTo(plan, cat, name) : RecipeOf(cat, MealAt(plan, c[1]).ID).servings <= 0}

\* quantity times the meal's servings, summed over a set of contributions
RECURSIVE SumByServings(_, _, _)
SumByServings(plan, cat, cs) ==
    IF cs = {} THEN 0
    ELSE LET c == CHOOSE x \in cs : TRUE
         IN NeedOf(plan, cat, c).qty * MealAt(plan, c[1]).Servings
            + SumByServings(plan, cat, cs \ {c})

\* C35: in every call that indexes the catalog, each recipe with an id whose
\* base servings are absent or not positive is named by an "invalid base
\* servings" problem of the report, which is therefore infeasible, and counts
\* with base servings 1: an item demanded through such recipes alone is
\* compared with the pantry on the sum of quantity times meal servings.
C35_BaseServingsDefault ==
    (Called /\ Parsed /\ ThePlan.DaysPlanned # <<>>) =>
        /\ \A i \in 1..Len(recipes) :
              IF i \in BadBase(recipes)
              THEN ~fcRet.ok /\ HasProblem(ProbBaseServings(TrimStr(recipes[i].id)))
              ELSE TrimStr(recipes[i].id) # "" =>
                      ReportsOf("recipe has invalid base servings", TrimStr(recipes[i].id)) = {}
        /\ \A name \in DemandNames(ThePlan, recipes) :
              (/\ FromBadBase(ThePlan, recipes, name) = ContributionsTo(ThePlan, recipes, name)
               /\ Conflicting(ThePlan, recipes, name) = {}) =>
                 LET den == Denominator(recipes)
                     need == SumByServings(ThePlan, recipes, ContributionsTo(ThePlan, recipes, name)) * den
                     unit == DemandUnit(ThePlan, recipes, name)
                 IN IF ~Stocked(pantry, name)
                    THEN HasProblem(ProbMissing(name, need, den, unit))
                    ELSE LET have == StockOf(pantry, name)
                         IN TrimStr(have.unit) = unit =>
                               (have.qty * den < need <=>
                                   HasProblem(ProbInsufficient(name, need, den, unit, have.qty, unit)))

\* 10 servings of a recipe with base servings 0 that needs 2 count of egg,
\* against 12 count: the recipe is flagged and 20 count are demanded
C35_Witness ==
    /\ Called /\ Parsed
    /\ BadBase(recipes) # {}
    /\ FromBadBase(ThePlan, recipes, "egg") # {}
    /\ SumByServings(ThePlan, recipes, ContributionsTo(ThePlan, recipes, "egg")) = 20
    /\ HasProblem(ProbBaseServings("r1"))
    /\ HasProblem(ProbInsufficient("egg", 20 * Denominator(recipes), Denominator(recipes), "count",
                                   12, "count"))

\* ------------------------------------- claims on the schema gate

\* the error text embedded in the reason of a corrective message
ReasonError(m) == Corrective(m).reason[2]

\* C36: when a brace-delimited candidate fails to parse or violates the plan
\* invariant, the message appended for it is the invalid_final_json
\* corrective and the error its reason embeds is an actual error, never the
\* nil error or an empty one.
C36_ReasonEmbedsError ==
    [][(InvokedOK /\ res'.ToolCalls = <<>>
        /\ BraceDelimited(TrimSpace(res'.Content)) /\ ~WellFormed(TrimSpace(res'.Content))) =>
          /\ AppendedOne
          /\ IsCorrective(Last(messages'), "invalid_final_json")
          /\ ReasonError(Last(messages')) \notin {"<nil>", "nil", ""}]_vars

\* ------------------------------------- claims on the repetition counts

\* how many times tool t was run in the dispatches listed in ran
TimesRun(ran, t) == Cardinality({i \in 1..Len(ran) : ran[i] = t})

\* the step discards the batch of the model's answer for excessive repetition
Discards ==
    /\ InvokedOK
    /\ res'.ToolCalls # <<>>
    /\ AppendedOne
    /\ IsCorrective(Last(messages'), "excessive_tool_repetition")

\* the tool whose request the guard stopped at
Offender == res'.ToolCalls[CountedUpTo(toolsAlreadyCalled, res'.ToolCalls)].Name

\* C37 as stated: whenever the guard discards a batch because of tool T,
\* T has been dispatched at least twice earlier in the run and the guard's
\* count for T before the batch is the number of times T was dispatched.
C37_GuardCountsInvocations ==
    [][Discards =>
          /\ TimesRun(dispatched, Offender) >= 2
          /\ toolsAlreadyCalled[Offender] = TimesRun(dispatched, Offender)]_vars

\* C37 amended: the guard counts requests, not dispatches.  Whenever it
\* discards a batch because of tool T, T is a data-gathering tool, its count
\* rises by the requests for T in the batch up to and including the
\* offending one and ends above 2, the count stays raised although nothing
\* of the batch is dispatched, and at every moment of the run the dispatches
\* of a data-gathering tool number at most its count.
C37_GuardCountsRequests ==
    /\ [][Discards =>
            LET calls == res'.ToolCalls
                k == CountedUpTo(toolsAlreadyCalled, calls)
            IN /\ Offender \in Registered
               /\ toolsAlreadyCalled'[Offender]
                     = toolsAlreadyCalled[Offender] + Requests(calls, k, Offender)
               /\ toolsAlreadyCalled'[Offender] > 2
               /\ dispatched' = dispatched]_vars
    /\ [](\A t \in Registered : TimesRun(dispatched, t) <= toolsAlreadyCalled[t])

\* a first batch asking three times for the pantry is discarded although the
\* pantry tool has never run
C37_Witness ==
    /\ coordinator = "bedrock"
    /\ invocations = 1
    /\ Len(res.ToolCalls) = 3
    /\ IsCorrective(Last(messages), "excessive_tool_repetition")
    /\ toolsAlreadyCalled["pantry_get"] = 3
    /\ TimesRun(dispatched, "pantry_get") = 0

\* ------------------------------------- claims on the results of Run

\* Run has returned an error
ReturnedError == pc = "returned" /\ retErr # Nil

\* C38: in the Bedrock, the Ollama and the mock coordinator, Run never
\* returns a non-empty output together with a non-nil error: on every error
\* return the output is empty.
C38_NoOutputWithError == ReturnedError => out = <<>>

\* the Ollama Run returns the error of a failing tool, and no output,
\* although the answer that asked for the tool carried text
C38_Witness ==
    /\ coordinator = "ollama"
    /\ ReturnedError
    /\ out = <<>>
    /\ res.Content # <<>>
    /\ dispatched # <<>>

\* ------------------------------------- claims on the catalog problems

\* the named, required needs of the catalog entries that have an id
RequiredNeeds(cat) ==
    UNION {{<<i, k>> : k \in {k \in 1..Len(cat[i].ingredients) :
                                 /\ ltrim(cat[i].ingredients[k].name) # ""
                                 /\ ~cat[i].ingredients[k].optional}} :
              i \in {i \in 1..Len(cat) : TrimStr(cat[i].id) # ""}}

\* what is wrong with the catalog itself: an entry with an id whose base
\* servings are not positive, a named required need without unit or without
\* a positive quantity
CatalogFlaws(cat) ==
    {ProbBaseServings(TrimStr(cat[i].id)) : i \in BadBase(cat)}
    \cup {ProbMissingUnit(TrimStr(cat[n[1]].id), ltrim(cat[n[1]].ingredients[n[2]].name)) :
             n \in {n \in RequiredNeeds(cat) : TrimStr(cat[n[1]].ingredients[n[2]].unit) = ""}}
    \cup {ProbNonPosQty(TrimStr(cat[n[1]].id), ltrim(cat[n[1]].ingredients[n[2]].name)) :
             n \in {n \in RequiredNeeds(cat) : ~(cat[n[1]].ingredients[n[2]].qty > 0)}}

\* the problems of the report that name a recipe of the catalog
CatalogProblems ==
    {fcRet.problems[i] : i \in {i \in 1..Len(fcRet.problems) :
        fcRet.problems[i].kind \in {"recipe has invalid base servings",
                                    "recipe ingredient missing unit",
                                    "recipe ingredient has non-positive qty"}}}

\* the recipes the plan refers to
UsedIds(plan) == {MealAt(plan, dm).ID : dm \in MealsOf(plan)}

\* C39: the problems recorded while indexing the catalog do not depend on
\* the plan.  In every call with a plan that parses and has days, the
\* catalog problems of the report are the flaws of the catalog, whatever the
\* plan refers to; so when a recipe (with an id) has non-positive base
\* servings, or a named required ingredient without unit or without a
\* positive quantity, the plan is reported infeasible, even one that does not
\* use that recipe and whose demand the pantry covers.
C39_CatalogProblemsAnyPlan ==
    (Called /\ Parsed /\ ThePlan.DaysPlanned # <<>>) =>
        /\ CatalogProblems = CatalogFlaws(recipes)
        /\ ~CatalogClean(recipes) => (CatalogFlaws(recipes) # {} /\ ~fcRet.ok)

\* a plan of the flawless recipe r2 alone, whose milk the pantry covers, is
\* reported infeasible for the three flaws of recipe r1
C39_Witness ==
    /\ Called /\ Parsed
    /\ UsedIds(ThePlan) = {"r2"}
    /\ MealsResolve(ThePlan, recipes) /\ NoUnitConflict(ThePlan, recipes) /\ AllCovered
    /\ CatalogFlaws(recipes) = {ProbBaseServings("r1"), ProbNonPosQty("r1", "milk"),
                                ProbMissingUnit("r1", "salt")}
    /\ ~fcRet.ok
    /\ Len(fcRet.problems) = 3

====
